---- MODULE Spec2Model ----
(***************************************************************************)
(* Model of the Pinterest automation bot: the content strategy service     *)
(* (services/content_strategy.py), its three SQLite tables, and the daily  *)
(* workflow of pinterest_bot/main.py that drives it.                       *)
(*                                                                         *)
(* Text is modelled by what the code does with it: a theme is the sequence *)
(* of its words, a keyword or hashtag is a token (number of leading '#',   *)
(* word), and a composed text field carries which template produced it and *)
(* its length in characters.  Dates ('%Y-%m-%d' strings) are day numbers,  *)
(* timestamps are ticks, TicksPerDay of them to a day.                     *)
(***************************************************************************)
EXTENDS Integers, Sequences, FiniteSets, TLC

(***************************************************************************)
(* Bounds of the model                                                     *)
(***************************************************************************)
\* the configured niche set is the first NumNiches entries of the shipped list
\* where strategies are synthesized, the first WorkflowNiches in the workflow
NumNiches == 2
WorkflowNiches == 1
\* the niches configured where the selection of a niche is explored
SelectNiches == 6
\* the niches configured where strategies are synthesized over performance data
RankedNiches == 2
\* the niches configured where the dimensions of strategies are explored
DimensionNiches == 10
\* seeds of the pseudo random generator that are explored: in the workflow,
\* and where strategies are synthesized
MaxSeed == 1
MaxSynthesisSeed == 4
\* timestamps per calendar day, and the last timestamp explored
TicksPerDay == 1
MaxNow == 1
\* the last timestamp explored with the cadence gate
MaxGateNow == 2
\* weekday (0 = Monday) and month of day 0
FirstWeekday == 4
StartMonth == 11
\* settings.BATCH_CONTENT_SIZE (7 as shipped), and the largest count of a
\* direct call of get_batch_strategies
BATCH_CONTENT_SIZE == 2
MaxCount == 2
\* caps on the number of rows of content_strategies (where the cadence gate is
\* explored, and in the workflow) and of prepared_content
MaxRows == 4
MaxWorkflowRows == 1
\* cap on the runs of a day counted in the workflow
MaxAttempts == 1
API_RATE_LIMIT == 2
MaxPins == 4
MaxBulk == 3
MaxPrepared == 2

(***************************************************************************)
(* Configuration (config/settings.py)                                      *)
(***************************************************************************)
POSTS_PER_DAY == 3
RATE_WINDOW == 3600

AllTargetNiches ==
    << "lifestyle", "home decor", "fashion", "food", "travel",
       "wellness", "productivity", "diy", "inspiration", "quotes" >>

Min(a, b) == IF a < b THEN a ELSE b

\* settings.TARGET_NICHES cut to its first n entries
TargetNiches(n) == SubSeq(AllTargetNiches, 1, Min(n, Len(AllTargetNiches)))

POSTING_TIMES == << "09:00", "15:00", "20:00" >>

WEBSITE_URL == "https://yourwebsite.com"

DEFAULT_BOARDS ==
    << "AI Generated Art", "Daily Inspiration", "Lifestyle Ideas", "Creative Designs" >>

IMAGE_DIMENSIONS == { "standard", "square", "story" }

\* a token: h leading '#' characters followed by the word w
Tag(w) == [h |-> 1, w |-> w]
Word(w) == [h |-> 0, w |-> w]

TemplateKeys == { "lifestyle", "home_decor", "wellness" }

CONTENT_TEMPLATES(key) ==
    CASE key = "lifestyle" ->
           [ prompt_templates |-> << 1, 2, 3 >>,
             hashtags |-> << Tag("lifestyle"), Tag("inspiration"), Tag("aesthetic"),
                             Tag("modern"), Tag("design") >>,
             boards |-> << "Lifestyle Inspiration", "Modern Living", "Daily Inspiration" >> ]
      [] key = "home_decor" ->
           [ prompt_templates |-> << 4, 5, 6 >>,
             hashtags |-> << Tag("homedecor"), Tag("interiordesign"), Tag("homedesign"),
                             Tag("decor"), Tag("interior") >>,
             boards |-> << "Home Decor Ideas", "Interior Design", "Home Inspiration" >> ]
      [] OTHER ->
           [ prompt_templates |-> << 7, 8, 9 >>,
             hashtags |-> << Tag("wellness"), Tag("selfcare"), Tag("mindfulness"),
                             Tag("health"), Tag("zen") >>,
             boards |-> << "Wellness Journey", "Self Care", "Mindful Living" >> ]

get_niche_config(niche) ==
    IF niche \in TemplateKeys THEN CONTENT_TEMPLATES(niche) ELSE CONTENT_TEMPLATES("lifestyle")

(***************************************************************************)
(* Characters of the words the code composes texts from                    *)
(***************************************************************************)
WordLenTable ==
    "DIY" :> 3 @@ "diy" :> 3 @@ "accessories" :> 11 @@ "adventure" :> 9 @@ "aesthetic" :> 9 @@
    "autumn" :> 6 @@ "blooming" :> 8 @@ "bohemian" :> 8 @@ "bright" :> 6 @@ "bucket" :> 6 @@
    "capsule" :> 7 @@ "cleaning" :> 8 @@ "colors" :> 6 @@ "comfort" :> 7 @@ "cooking" :> 7 @@
    "cozy" :> 4 @@ "craft" :> 5 @@ "creative" :> 8 @@ "creativity" :> 10 @@ "cultural" :> 8 @@
    "daily" :> 5 @@ "decor" :> 5 @@ "design" :> 6 @@ "dreams" :> 6 @@ "encouragement" :> 13 @@
    "experiences" :> 11 @@ "farmhouse" :> 9 @@ "fashion" :> 7 @@ "food" :> 4 @@ "fresh" :> 5 @@
    "goal" :> 4 @@ "growth" :> 6 @@ "habits" :> 6 @@ "handmade" :> 8 @@ "harvest" :> 7 @@
    "health" :> 6 @@ "healthy" :> 7 @@ "holiday" :> 7 @@ "home" :> 4 @@ "homedecor" :> 9 @@
    "homedesign" :> 10 @@ "hygge" :> 5 @@ "ideas" :> 5 @@ "inspiration" :> 11 @@
    "interior" :> 8 @@ "interiordesign" :> 14 @@ "lessons" :> 7 @@ "life" :> 4 @@
    "lifestyle" :> 9 @@ "list" :> 4 @@ "living" :> 6 @@ "management" :> 10 @@ "meal" :> 4 @@
    "meditation" :> 10 @@ "mental" :> 6 @@ "mindful" :> 7 @@ "mindfulness" :> 11 @@
    "mindset" :> 7 @@ "minimalist" :> 10 @@ "modern" :> 6 @@ "morning" :> 7 @@
    "motivation" :> 10 @@ "motivational" :> 12 @@ "organization" :> 12 @@ "outdoor" :> 7 @@
    "outfit" :> 6 @@ "personal" :> 8 @@ "pinterest" :> 9 @@ "plant-based" :> 11 @@
    "positivity" :> 10 @@ "practice" :> 8 @@ "prep" :> 4 @@ "productivity" :> 12 @@
    "projects" :> 8 @@ "quotes" :> 6 @@ "recipes" :> 7 @@ "reflection" :> 10 @@
    "renewal" :> 7 @@ "routine" :> 7 @@ "scandinavian" :> 12 @@ "seasonal" :> 8 @@
    "self-care" :> 9 @@ "selfcare" :> 8 @@ "setting" :> 7 @@ "small" :> 5 @@ "space" :> 5 @@
    "spring" :> 6 @@ "start" :> 5 @@ "style" :> 5 @@ "success" :> 7 @@ "summer" :> 6 @@
    "sustainable" :> 11 @@ "time" :> 4 @@ "tips" :> 4 @@ "travel" :> 6 @@ "tutorials" :> 9 @@
    "upcycling" :> 9 @@ "vacation" :> 8 @@ "vibes" :> 5 @@ "wanderlust" :> 10 @@
    "wardrobe" :> 8 @@ "warm" :> 4 @@ "wellness" :> 8 @@ "winter" :> 6 @@ "wisdom" :> 6 @@
    "workspace" :> 9 @@ "yoga" :> 4 @@ "zen" :> 3

\* len() of a niche label
NicheLen(niche) ==
    CASE niche = "home decor" -> 10
      [] niche = "diy" -> 3
      [] OTHER -> WordLenTable[niche]

\* len() of a keyword or hashtag
TokenLen(t) == t.h + WordLenTable[t.w]

RECURSIVE SumLen(_)
SumLen(tokens) ==
    IF tokens = << >> THEN 0 ELSE TokenLen(Head(tokens)) + SumLen(Tail(tokens))

\* len(sep.join(tokens)) for a separator of seplen characters
JoinLen(tokens, seplen) ==
    IF tokens = << >> THEN 0 ELSE SumLen(tokens) + seplen * (Len(tokens) - 1)

\* len() of a theme: its words joined by single spaces
ThemeLen(theme) == JoinLen([i \in 1..Len(theme) |-> Word(theme[i])], 1)

\* str.lower() of a word: "DIY" is the only word of the tables with upper case
Lower(w) == IF w = "DIY" THEN "diy" ELSE w

(***************************************************************************)
(* Python list helpers                                                     *)
(***************************************************************************)
\* seq[:n]
Take(seq, n) == SubSeq(seq, 1, Min(n, Len(seq)))

Range(seq) == { seq[i] : i \in 1..Len(seq) }

\* the list with its repetitions kept
KeepRepetitions(seq) == seq

RECURSIVE Dedupe(_)
Dedupe(seq) ==
    IF seq = << >> THEN << >>
    ELSE LET rest == Dedupe(SubSeq(seq, 1, Len(seq) - 1))
             last == seq[Len(seq)]
         IN IF last \in Range(rest) THEN rest ELSE Append(rest, last)

Rotate(seq, k) ==
    IF seq = << >> THEN << >>
    ELSE LET n == Len(seq) IN [i \in 1..n |-> seq[((i - 1 + k) % n) + 1]]

\* list(set(seq)): the distinct elements, in an order the hash seed decides;
\* r selects the order among the rotations of the first-occurrence order
ListOfSet(seq, r) == Rotate(Dedupe(seq), r)

\* random.choice(seq), r being the random number drawn
Choice(seq, r) == seq[(r % Len(seq)) + 1]

\* the i-th random number of a generator seeded with seed
Rand(seed, i) == (seed * 7 + i * 5 + seed * i * 3 + (i \div 3)) % 60

(***************************************************************************)
(* Calendar                                                                *)
(***************************************************************************)
\* the calendar day of a timestamp; strftime('%Y-%m-%d') of it
DayOf(t) == t \div TicksPerDay

\* datetime.weekday(): 0 is Monday, 5 and 6 are Saturday and Sunday
Weekday(day) == (FirstWeekday + day) % 7

\* datetime.month of a day; the modelled days lie within one month
MonthOf(day) == ((StartMonth - 1) % 12) + 1

(***************************************************************************)
(* Fixed word lists of the content strategy service                        *)
(***************************************************************************)
trending_keywords ==
    << "minimalist", "cozy", "aesthetic", "mindful", "sustainable", "wellness",
       "productivity" >>

seasonal_themes(season) ==
    CASE season = "winter" -> << <<"cozy">>, <<"hygge">>, <<"winter", "wellness">>, <<"holiday">> >>
      [] season = "spring" -> << <<"fresh", "start">>, <<"spring", "cleaning">>, <<"renewal">>,
                                 <<"blooming">> >>
      [] season = "summer" -> << <<"summer", "vibes">>, <<"vacation">>, <<"outdoor", "living">>,
                                 <<"bright">> >>
      [] OTHER -> << <<"autumn">>, <<"cozy", "home">>, <<"harvest">>, <<"warm", "colors">> >>

niche_themes(niche) ==
    CASE niche = "lifestyle" -> << <<"minimalist", "living">>, <<"cozy", "home">>,
                                   <<"morning", "routine">>, <<"self-care">>, <<"productivity">> >>
      [] niche = "home_decor" -> << <<"scandinavian", "style">>, <<"bohemian", "decor">>,
                                    <<"modern", "farmhouse">>, <<"small", "space">>,
                                    <<"DIY", "projects">> >>
      [] niche = "wellness" -> << <<"mindfulness">>, <<"yoga", "practice">>,
                                  <<"healthy", "habits">>, <<"meditation">>,
                                  <<"mental", "health">> >>
      [] niche = "fashion" -> << <<"capsule", "wardrobe">>, <<"sustainable", "fashion">>,
                                 <<"outfit", "ideas">>, <<"accessories">>, <<"style", "tips">> >>
      [] niche = "food" -> << <<"healthy", "recipes">>, <<"meal", "prep">>, <<"comfort", "food">>,
                              <<"seasonal", "cooking">>, <<"plant-based">> >>
      [] niche = "travel" -> << <<"wanderlust">>, <<"travel", "tips">>, <<"bucket", "list">>,
                                <<"adventure">>, <<"cultural", "experiences">> >>
      [] niche = "productivity" -> << <<"organization">>, <<"time", "management">>,
                                      <<"goal", "setting">>, <<"workspace">>, <<"habits">> >>
      [] niche = "diy" -> << <<"craft", "projects">>, <<"upcycling">>, <<"handmade">>,
                             <<"creative", "ideas">>, <<"tutorials">> >>
      [] niche = "inspiration" -> << <<"motivational", "quotes">>, <<"personal", "growth">>,
                                     <<"success", "mindset">>, <<"positivity">>, <<"dreams">> >>
      [] niche = "quotes" -> << <<"daily", "motivation">>, <<"life", "lessons">>, <<"wisdom">>,
                                <<"encouragement">>, <<"reflection">> >>
      [] OTHER -> << <<"inspiration">>, <<"lifestyle">>, <<"creativity">> >>

niche_styles(niche) ==
    CASE niche = "lifestyle" -> << "bright", "minimal", "cozy" >>
      [] niche = "home_decor" -> << "elegant", "modern", "cozy" >>
      [] niche = "wellness" -> << "peaceful", "natural", "soft" >>
      [] niche = "fashion" -> << "stylish", "trendy", "elegant" >>
      [] niche = "food" -> << "appetizing", "rustic", "bright" >>
      [] niche = "travel" -> << "adventurous", "scenic", "vibrant" >>
      [] niche = "productivity" -> << "clean", "organized", "modern" >>
      [] niche = "diy" -> << "creative", "rustic", "colorful" >>
      [] niche = "inspiration" -> << "uplifting", "bright", "motivational" >>
      [] niche = "quotes" -> << "elegant", "minimal", "inspiring" >>
      [] OTHER -> << "standard", "bright", "elegant" >>

\* every niche mapped to the standard dimensions
NicheDimensionsAllStandard(niche) == "standard"

niche_dimensions(niche) ==
    CASE niche = "food" -> "square"
      [] niche \in { "inspiration", "quotes" } -> "story"
      [] OTHER -> "standard"

\* the keys of the niche_dimensions table
DimensionKeys ==
    { "lifestyle", "home_decor", "wellness", "fashion", "food", "travel", "productivity",
      "diy", "inspiration", "quotes" }

niche_times(niche) ==
    CASE niche \in { "lifestyle", "fashion", "diy" } -> "15:00"
      [] niche \in { "home_decor", "travel" } -> "20:00"
      [] niche \in { "wellness", "productivity", "inspiration", "quotes" } -> "09:00"
      [] niche = "food" -> "12:00"
      [] OTHER -> "random"

\* characters of the title templates around {theme}
TitleTemplateLen == << 36, 37, 31, 19, 24, 29, 37 >>

\* description templates: characters around the placeholders, and how often
\* {theme} occurs ({niche} occurs once in each)
DescriptionTemplateLen == << 125, 118, 109, 113 >>
DescriptionThemeCount == << 2, 1, 1, 1 >>

\* characters of the call-to-action phrases
CtaLen == << 39, 34, 40, 29 >>

\* the steps of a synthesis that may raise
FieldFailures ==
    { "theme", "keywords", "prompt", "title", "description", "board", "style",
      "dimensions", "link", "alt_text", "hashtags" }

(***************************************************************************)
(* Composition of the fields of a strategy                                 *)
(***************************************************************************)
_get_seasonal_theme(day, seed) ==
    LET month == MonthOf(day)
        season == IF month \in { 12, 1, 2 } THEN "winter"
                  ELSE IF month \in { 3, 4, 5 } THEN "spring"
                  ELSE IF month \in { 6, 7, 8 } THEN "summer"
                  ELSE "fall"
    IN Choice(seasonal_themes(season), Rand(seed, 1))

\* random.sample(trending_keywords, 3)
_get_trending_keywords_for_date(seed) ==
    Take(Rotate(trending_keywords, Rand(seed, 2)), Min(3, Len(trending_keywords)))

_generate_theme(niche, seasonal_theme, trending, seed, fail) ==
    IF fail = "theme" THEN << "lifestyle", "inspiration" >>
    ELSE LET base_themes == niche_themes(niche)
             withSeason ==
                 IF seasonal_theme # << >> /\ Rand(seed, 3) % 10 < 3
                 THEN seasonal_theme \o Choice(base_themes, Rand(seed, 4))
                 ELSE Choice(base_themes, Rand(seed, 4))
         IN IF trending # << >> /\ Rand(seed, 5) % 10 < 2
            THEN << Choice(trending, Rand(seed, 6)) >> \o withSeason
            ELSE withSeason

\* the keyword list returned whole
KeywordsUncut(all_keywords) == all_keywords

\* all_keywords[:8]
KeywordLimit(all_keywords) == Take(all_keywords, 8)

_generate_keywords(niche, theme, trending, seed, fail) ==
    IF fail = "keywords"
    THEN << Tag("inspiration"), Tag("lifestyle"), Tag("pinterest") >>
    ELSE LET base_keywords == get_niche_config(niche).hashtags
             theme_keywords == [i \in 1..Len(theme) |-> Word(Lower(theme[i]))]
             trend3 == [i \in 1..Len(Take(trending, 3)) |-> Word(trending[i])]
             all_keywords == ListOfSet(base_keywords \o theme_keywords \o trend3, Rand(seed, 7))
         IN KeywordLimit(all_keywords)

_generate_ai_prompt(niche, theme, niche_config, seed, fail) ==
    IF fail = "prompt"
    THEN [kind |-> "fallback", template |-> 0, theme |-> theme, enhancements |-> << >>]
    ELSE [kind |-> "template",
          template |-> Choice(niche_config.prompt_templates, Rand(seed, 8)),
          theme |-> theme,
          enhancements |-> Take(Rotate(<< 1, 2, 3, 4, 5, 6 >>, Rand(seed, 9)), 2)]

_generate_title(theme, keywords, seed, fail) ==
    IF fail = "title"
    THEN [kind |-> "fallback", template |-> 0, len |-> ThemeLen(theme) + 12]
    ELSE LET t == (Rand(seed, 10) % Len(TitleTemplateLen)) + 1
         IN [kind |-> "template", template |-> t,
             len |-> Min(TitleTemplateLen[t] + ThemeLen(theme), 100)]

_generate_description(theme, keywords, niche, seed, fail) ==
    IF fail = "description"
    THEN [kind |-> "fallback", template |-> 0, cta |-> 0,
          len |-> 58 + ThemeLen(theme) + JoinLen(Take(keywords, 3), 1)]
    ELSE LET t == (Rand(seed, 11) % Len(DescriptionTemplateLen)) + 1
             c == (Rand(seed, 12) % Len(CtaLen)) + 1
             body == DescriptionTemplateLen[t] + DescriptionThemeCount[t] * ThemeLen(theme)
                     + NicheLen(niche)
             hashtags == JoinLen(Take(keywords, 5), 1)
         IN [kind |-> "template", template |-> t, cta |-> c,
             len |-> Min(body + 2 + hashtags + 1 + CtaLen[c], 500)]

_select_board(niche, niche_config, seed, fail) ==
    IF fail = "board" THEN DEFAULT_BOARDS[1]
    ELSE Choice(niche_config.boards \o DEFAULT_BOARDS, Rand(seed, 13))

_select_style(niche, seasonal_theme, seed, fail) ==
    IF fail = "style" THEN "standard"
    ELSE LET words == Range(seasonal_theme)
             seasonal ==
                 IF "winter" \in words THEN << "cozy", "warm", "festive" >>
                 ELSE IF "summer" \in words THEN << "bright", "vibrant", "fresh" >>
                 ELSE IF "spring" \in words THEN << "fresh", "pastel", "blooming" >>
                 ELSE IF "fall" \in words THEN << "warm", "rustic", "cozy" >>
                 ELSE << >>
         IN Choice(niche_styles(niche) \o seasonal, Rand(seed, 14))

\* the lookup of a dict literal raises only for a value that cannot be a key,
\* which is none of the keys of the table
_select_dimensions(niche, fail) ==
    IF fail = "dimensions" /\ niche \notin DimensionKeys THEN "standard"
    ELSE niche_dimensions(niche)

\* base URL plus the urlencoded UTM parameters; utm_term is strftime('%Y%m%d')
\* of the current time
_create_tracking_link(niche, theme, t, fail) ==
    IF fail = "link"
    THEN [base |-> WEBSITE_URL, utm |-> FALSE, utm_content |-> << >>, utm_term |-> -1]
    ELSE [base |-> WEBSITE_URL, utm |-> TRUE, utm_content |-> << niche, theme >>,
          utm_term |-> DayOf(t)]

_generate_alt_text(theme, keywords, fail) ==
    IF fail = "alt_text"
    THEN [kind |-> "fallback", len |-> ThemeLen(theme) + 12]
    ELSE [kind |-> "template",
          len |-> Min(40 + ThemeLen(theme) + JoinLen(Take(keywords, 3), 2), 500)]

\* f"#{kw}": a '#' put in front of the keyword as it is
RehashKeeping(kw) == [h |-> kw.h + 1, w |-> kw.w]

\* f"#{kw.replace('#', '')}"
Rehash(kw) == [h |-> 1, w |-> kw.w]

_generate_hashtags(niche, keywords, seed, fail) ==
    IF fail = "hashtags"
    THEN << Tag("pinterest"), Tag("inspiration"), Tag("ideas") >>
    ELSE LET base_hashtags == get_niche_config(niche).hashtags
             all_hashtags ==
                 ListOfSet(base_hashtags \o [i \in 1..Len(keywords) |-> Rehash(keywords[i])],
                           Rand(seed, 15))
             pinterest_hashtags ==
                 << Tag("pinterest"), Tag("inspiration"), Tag("ideas"), Tag("lifestyle") >>
             unique_hashtags == ListOfSet(all_hashtags \o pinterest_hashtags, Rand(seed, 16))
         IN Take(unique_hashtags, 10)

_get_optimal_posting_time(niche, seed) ==
    IF niche_times(niche) = "random" THEN Choice(POSTING_TIMES, Rand(seed, 17))
    ELSE niche_times(niche)

_get_fallback_strategy(t) ==
    [ date |-> DayOf(t),
      niche |-> "lifestyle",
      theme |-> << "daily", "inspiration" >>,
      keywords |-> << Tag("inspiration"), Tag("lifestyle"), Tag("pinterest") >>,
      prompt |-> [kind |-> "default", template |-> 0, theme |-> << "daily", "inspiration" >>,
                  enhancements |-> << >>],
      title |-> [kind |-> "default", template |-> 0, len |-> 23],
      description |-> [kind |-> "default", template |-> 0, cta |-> 0, len |-> 74],
      board_name |-> DEFAULT_BOARDS[1],
      board_id |-> "None",
      style |-> "standard",
      dimensions |-> "standard",
      website_link |-> [base |-> WEBSITE_URL, utm |-> FALSE, utm_content |-> << >>,
                        utm_term |-> -1],
      alt_text |-> [kind |-> "default", len |-> 31],
      hashtags |-> << Tag("inspiration"), Tag("lifestyle"), Tag("pinterest") >>,
      optimal_posting_time |-> "15:00" ]

(***************************************************************************)
(* The tables of the strategy database and the queries on them.            *)
(* A table is the sequence of its rows in rowid order.  content_strategies *)
(* rows keep the columns a query reads (date, niche, created_at); the text *)
(* columns written beside them are read by no query.                       *)
(***************************************************************************)
VARIABLES
    now,                    \* the current time, in ticks
    TARGET_NICHES,          \* settings.TARGET_NICHES
    SKIP_WEEKENDS,          \* settings.SKIP_WEEKENDS
    GENERATE_BATCH_CONTENT, \* settings.GENERATE_BATCH_CONTENT
    content_strategies,     \* table content_strategies
    content_performance,    \* table content_performance of the strategy database
    prepared_content,       \* table prepared_content
    op,                     \* the operation that ran last
    gate,                   \* what should_post_today returned last
    daily,                  \* what get_daily_strategy returned last
    batch_count,            \* the argument of the last call of get_batch_strategies
    batch,                  \* what get_batch_strategies returned last
    calls,                  \* the external calls of the last workflow run, in order
    attempts,               \* create_pin calls of gated runs on the current day
    served,                 \* the prepared strategy get_daily_strategy first returned today
    selection,              \* what _select_optimal_niche computed in the last direct call
                            \* of it or of get_daily_strategy
    outcome,                \* what generate_and_post_content did and returned last
    pins,                   \* the pins the platform holds, in the order of their creation
    rate_limit_remaining,   \* PinterestClient.rate_limit_remaining
    rate_limit_reset,       \* PinterestClient.rate_limit_reset, in seconds
    results                 \* what the last calls of create_pin returned

vars ==
    << now, TARGET_NICHES, SKIP_WEEKENDS, GENERATE_BATCH_CONTENT, content_strategies,
       content_performance, prepared_content, op, gate, daily, batch_count, batch, calls, attempts,
       served, selection, outcome, pins, rate_limit_remaining, rate_limit_reset, results >>

Today == DayOf(now)

\* json.dumps / json.loads of a strategy: None is written as null
\* (board_id is the one field that holds None)
JsonDumps(strategy) ==
    [strategy EXCEPT !.board_id = IF @ = "None" THEN "null" ELSE @]

JsonLoads(text) ==
    [text EXCEPT !.board_id = IF @ = "null" THEN "None" ELSE @]

\* rank of a niche label in the order of the BINARY collation
AlphaRank(niche) ==
    CASE niche = "diy" -> 1 [] niche = "fashion" -> 2 [] niche = "food" -> 3
      [] niche = "home decor" -> 4 [] niche = "inspiration" -> 5 [] niche = "lifestyle" -> 6
      [] niche = "productivity" -> 7 [] niche = "quotes" -> 8 [] niche = "travel" -> 9
      [] niche = "wellness" -> 10 [] OTHER -> 0

\* rows of a table that satisfy created_at > datetime('now', '-days days')
CreatedWithin(rows, t, days) ==
    { i \in 1..Len(rows) : rows[i].created_at > t - days * TicksPerDay }

RECURSIVE SumRates(_, _)
SumRates(cp, ids) ==
    IF cp = << >> THEN 0
    ELSE (IF Head(cp).strategy_id \in ids THEN Head(cp).engagement_rate ELSE 0)
         + SumRates(Tail(cp), ids)

\* ascending average
RankedAscending(a, b) ==
    \/ a.sum * b.cnt < b.sum * a.cnt
    \/ a.sum * b.cnt = b.sum * a.cnt /\ AlphaRank(a.niche) > AlphaRank(b.niche)

\* descending average, equal averages in descending label order (what the
\* SQLite build returns for GROUP BY niche ORDER BY avg DESC)
RankedBefore(a, b) ==
    \/ a.sum * b.cnt > b.sum * a.cnt
    \/ a.sum * b.cnt = b.sum * a.cnt /\ AlphaRank(a.niche) > AlphaRank(b.niche)

RECURSIVE SortGroups(_)
SortGroups(groups) ==
    IF groups = {} THEN << >>
    ELSE LET first == CHOOSE g \in groups : \A h \in groups \ {g} : RankedBefore(g, h)
         IN << first >> \o SortGroups(groups \ {first})

_get_top_performing_niches(cs, cp, t, fail) ==
    IF fail = "ranking" THEN << >>
    ELSE LET recent == CreatedWithin(cs, t, 30)
             niches == { cs[i].niche : i \in recent }
             idsOf(n) == { i \in recent : cs[i].niche = n }
             group(n) ==
                 [ niche |-> n,
                   sum |-> SumRates(cp, idsOf(n)),
                   cnt |-> Cardinality({ j \in 1..Len(cp) : cp[j].strategy_id \in idsOf(n) }) ]
             \* a niche without a joined performance row has a NULL average:
             \* it sorts last and is filtered from the result
             scored == { group(n) : n \in { m \in niches : group(m).cnt > 0 } }
             ranked == SortGroups(scored)
         IN [i \in 1..Min(5, Len(ranked)) |-> ranked[i].niche]

_get_recent_niches(cs, t, days, fail) ==
    IF fail = "recent" THEN << >>
    ELSE LET recent == CreatedWithin(cs, t, days)
             RECURSIVE Collect(_)
             Collect(i) == IF i = 0 THEN << >>
                           ELSE (IF i \in recent THEN << cs[i].niche >> ELSE << >>)
                                \o Collect(i - 1)
         IN Collect(Len(cs))

\* Counter(recent_niches).get(niche, 0)
CountOf(seq, x) == Cardinality({ i \in 1..Len(seq) : seq[i] = x })

\* the boost of a niche for the ranking top_performing
BoostOf(niche, top_performing) ==
    IF niche \in Range(Take(top_performing, 3)) THEN 3
    ELSE IF niche \in Range(Take(top_performing, 5)) THEN 2
    ELSE 1

\* the weight divided by recent_usage instead of recent_usage + 1
NicheWeightByUsage(niche, top_performing, recent_niches) ==
    LET recent_usage == CountOf(recent_niches, niche)
    IN [ num |-> BoostOf(niche, top_performing),
         den |-> IF recent_usage > 0 THEN recent_usage ELSE 1 ]

\* the weight without the division for recent use
NicheWeightUnpenalized(niche, top_performing, recent_niches) ==
    [ num |-> BoostOf(niche, top_performing), den |-> 1 ]

\* the selection weight of a niche, as the fraction num / den
NicheWeight(niche, top_performing, recent_niches) ==
    LET recent_usage == CountOf(recent_niches, niche)
    IN [ num |-> BoostOf(niche, top_performing),
         den |-> IF recent_usage > 0 THEN recent_usage + 1 ELSE 1 ]

\* the weights computed whether or not a ranking exists
SelectionWeightsAlwaysWeighted(available_niches, top_performing, recent_niches) ==
    [ i \in 1..Len(available_niches) |->
        NicheWeight(available_niches[i], top_performing, recent_niches) ]

\* the weights random.choices draws with; all 1 for random.choice
SelectionWeights(available_niches, top_performing, recent_niches) ==
    [ i \in 1..Len(available_niches) |->
        IF top_performing # << >>
        THEN NicheWeight(available_niches[i], top_performing, recent_niches)
        ELSE [num |-> 1, den |-> 1] ]

\* the weights _select_optimal_niche draws with and the niches it can return
_select_optimal_niche(available_niches, top_performing, cs, t, fail) ==
    LET recent_niches == _get_recent_niches(cs, t, 7, fail)
        weights == SelectionWeights(available_niches, top_performing, recent_niches)
    IN [ weights |-> weights,
         niches |-> { available_niches[i] :
                        i \in { j \in 1..Len(available_niches) : weights[j].num > 0 } } ]

(***************************************************************************)
(* Synthesis of a strategy                                                 *)
(***************************************************************************)
\* the body of the try block: the fields of a strategy composed in turn
ComposeStrategy(date, t, niche, seed, fail) ==
    LET seasonal_theme == _get_seasonal_theme(DayOf(t), seed)
        trending == _get_trending_keywords_for_date(seed)
        niche_config == get_niche_config(niche)
        theme == _generate_theme(niche, seasonal_theme, trending, seed, fail)
        keywords == _generate_keywords(niche, theme, trending, seed, fail)
    IN [ date |-> date,
         niche |-> niche,
         theme |-> theme,
         keywords |-> keywords,
         prompt |-> _generate_ai_prompt(niche, theme, niche_config, seed, fail),
         title |-> _generate_title(theme, keywords, seed, fail),
         description |-> _generate_description(theme, keywords, niche, seed, fail),
         board_name |-> _select_board(niche, niche_config, seed, fail),
         board_id |-> "None",
         style |-> _select_style(niche, seasonal_theme, seed, fail),
         dimensions |-> _select_dimensions(niche, fail),
         website_link |-> _create_tracking_link(niche, theme, t, fail),
         alt_text |-> _generate_alt_text(theme, keywords, fail),
         hashtags |-> _generate_hashtags(niche, keywords, seed, fail),
         optimal_posting_time |-> _get_optimal_posting_time(niche, seed) ]

\* a synthesis that a failing ranking query aborts as well
SynthesisAbortedByRanking(date, t, niche, seed, fail) ==
    IF fail \in { "synth", "ranking" } THEN _get_fallback_strategy(t)
    ELSE ComposeStrategy(date, t, niche, seed, fail)

\* a synthesis that the failure of one field aborts
SynthesisAbortedByField(date, t, niche, seed, fail) ==
    IF fail \in { "synth" } \cup FieldFailures THEN _get_fallback_strategy(t)
    ELSE ComposeStrategy(date, t, niche, seed, fail)

\* a synthesis whose failure hands on the fields assembled so far
SynthesisWithoutFallback(date, t, niche, seed, fail) ==
    IF fail = "synth" THEN [date |-> date, niche |-> niche]
    ELSE ComposeStrategy(date, t, niche, seed, fail)

_generate_strategy_for_date(date, t, niche, seed, fail) ==
    IF fail = "synth" THEN _get_fallback_strategy(t)
    ELSE ComposeStrategy(date, t, niche, seed, fail)

\* the niches a synthesis at time t can select
SelectableNiches(cs, cp, t, fail) ==
    _select_optimal_niche(TARGET_NICHES, _get_top_performing_niches(cs, cp, t, fail), cs, t,
                          fail).niches

(***************************************************************************)
(* Operations of the content strategy service                              *)
(***************************************************************************)
\* failures of the storage layer, each swallowed where it occurs
StorageFailures == { "prepared_read", "save", "count", "ranking", "recent", "prepared_save" }

\* the query with ORDER BY created_at DESC
NewestPreparedContentForDate(pc, date, fail) ==
    IF fail = "prepared_read" THEN 0
    ELSE LET ready == { i \in 1..Len(pc) :
                          pc[i].scheduled_date = date /\ pc[i].status = "ready" }
         IN IF ready = {} THEN 0
            ELSE CHOOSE i \in ready :
                   \A j \in ready :
                      \/ pc[i].created_at > pc[j].created_at
                      \/ pc[i].created_at = pc[j].created_at /\ i >= j

\* rowid of the row the query returns (0: no row, None is returned):
\* WHERE scheduled_date = ? AND status = 'ready' ORDER BY created_at ASC LIMIT 1,
\* rows of equal created_at in rowid order
_get_prepared_content_for_date(pc, date, fail) ==
    IF fail = "prepared_read" THEN 0
    ELSE LET ready == { i \in 1..Len(pc) :
                          pc[i].scheduled_date = date /\ pc[i].status = "ready" }
         IN IF ready = {} THEN 0
            ELSE CHOOSE i \in ready :
                   \A j \in ready :
                      \/ pc[i].created_at < pc[j].created_at
                      \/ pc[i].created_at = pc[j].created_at /\ i <= j

\* the count read as the limit when the query fails
CountPostsFailingClosed(cs, date, fail) ==
    IF fail = "count" THEN POSTS_PER_DAY
    ELSE Cardinality({ i \in 1..Len(cs) : cs[i].date = date })

_count_posts_today(cs, date, fail) ==
    IF fail = "count" THEN 0
    ELSE Cardinality({ i \in 1..Len(cs) : cs[i].date = date })

\* the gate with the cap compared by > instead of >=
ShouldPostTodayAboveCap(cs, skip_weekends, t, fail) ==
    IF skip_weekends /\ Weekday(DayOf(t)) >= 5 THEN FALSE
    ELSE IF _count_posts_today(cs, DayOf(t), fail) > POSTS_PER_DAY THEN FALSE
    ELSE TRUE

\* the gate without the weekend rule
ShouldPostTodayEveryDay(cs, skip_weekends, t, fail) ==
    IF fail = "gate" THEN TRUE
    ELSE IF _count_posts_today(cs, DayOf(t), fail) >= POSTS_PER_DAY THEN FALSE
    ELSE TRUE

\* fail = "gate": a statement of the limit check raises, which the handler of
\* should_post_today answers with True
should_post_today(cs, skip_weekends, t, fail) ==
    IF skip_weekends /\ Weekday(DayOf(t)) >= 5 THEN FALSE
    ELSE IF fail = "gate" THEN TRUE
    ELSE IF _count_posts_today(cs, DayOf(t), fail) >= POSTS_PER_DAY THEN FALSE
    ELSE TRUE

\* the row stored although the INSERT raised
SaveStrategyDespiteFailure(cs, strategy, t, fail) ==
    Append(cs, [date |-> strategy.date, niche |-> strategy.niche, created_at |-> t])

\* the INSERT made only while the day's count is below the limit
SaveStrategyWithinLimit(cs, strategy, t, fail) ==
    IF fail = "save" \/ _count_posts_today(cs, strategy.date, "none") >= POSTS_PER_DAY THEN cs
    ELSE Append(cs, [date |-> strategy.date, niche |-> strategy.niche, created_at |-> t])

\* the INSERT made twice
SaveStrategyTwice(cs, strategy, t, fail) ==
    IF fail = "save" THEN cs
    ELSE cs \o << [date |-> strategy.date, niche |-> strategy.niche, created_at |-> t],
                  [date |-> strategy.date, niche |-> strategy.niche, created_at |-> t] >>

\* INSERT INTO content_strategies; an error is logged and swallowed
_save_strategy(cs, strategy, t, fail) ==
    IF fail = "save" THEN cs
    ELSE Append(cs, [date |-> strategy.date, niche |-> strategy.niche, created_at |-> t])

\* the returned strategy, where it came from, and content_strategies afterwards
get_daily_strategy(cs, pc, t, niche, seed, fail) ==
    LET current_date == DayOf(t)
        prepared == _get_prepared_content_for_date(pc, current_date, fail)
    IN IF prepared # 0
       THEN [ source |-> "prepared", day |-> current_date,
              strategy |-> JsonLoads(pc[prepared].strategy_data), rows |-> cs ]
       ELSE LET strategy == _generate_strategy_for_date(current_date, t, niche, seed, fail)
            IN [ source |-> IF fail = "synth" THEN "fallback" ELSE "synthesized",
                 day |-> current_date,
                 strategy |-> strategy,
                 rows |-> _save_strategy(cs, strategy, t, fail) ]

\* the generator's state when the i-th strategy of a batch is drawn
ItemSeed(seed, i) == seed + i

\* the date of the i-th strategy of a batch requested at time t
FutureDate(t, i) == DayOf(t) + i

get_batch_strategies(count, t, niches, seed, fail, failAt) ==
    [ i \in 1..count |->
        _generate_strategy_for_date(FutureDate(t, i), t, niches[i], ItemSeed(seed, i),
                                    IF failAt = i THEN fail ELSE "none") ]

\* INSERT INTO prepared_content; an error is logged and swallowed
save_prepared_content(pc, strategy, image_data, t, fail) ==
    IF fail = "prepared_save" THEN pc
    ELSE Append(pc, [ strategy_data |-> JsonDumps(strategy),
                      image_path |-> image_data.path,
                      scheduled_date |-> strategy.date,
                      status |-> "ready",
                      created_at |-> t ])

(***************************************************************************)
(* The workflow of the bot (pinterest_bot/main.py)                         *)
(***************************************************************************)
\* the artifact generate_image returns for the prompt of a strategy
ImageOf(strategy, who, item) == [path |-> << who, item >>, prompt |-> strategy.prompt]

\* prepared_content after the loop of generate_batch_content has handled the
\* first k strategies; images: the items whose image generation succeeded
RECURSIVE BatchRows(_, _, _, _, _, _, _)
BatchRows(pc, strategies, k, images, t, fail, failAt) ==
    IF k = 0 THEN pc
    ELSE LET before == BatchRows(pc, strategies, k - 1, images, t, fail, failAt)
         IN IF k \in images
            THEN save_prepared_content(before, strategies[k],
                                       ImageOf(strategies[k], "generate_batch_content", k), t,
                                       IF failAt = k THEN fail ELSE "none")
            ELSE before

\* the external calls of the loop, in order
RECURSIVE BatchCalls(_, _)
BatchCalls(k, images) ==
    IF k = 0 THEN << >>
    ELSE BatchCalls(k - 1, images)
         \o (IF k \in images THEN << "generate_image", "save_prepared_content" >>
             ELSE << "generate_image" >>)

generate_batch_content(pc, t, niches, seed, images, fail, failAt) ==
    LET strategies == get_batch_strategies(BATCH_CONTENT_SIZE, t, niches, seed, fail, failAt)
    IN [ strategies |-> strategies,
         prepared |-> BatchRows(pc, strategies, BATCH_CONTENT_SIZE, images, t, fail, failAt),
         calls |-> << "get_batch_strategies" >> \o BatchCalls(BATCH_CONTENT_SIZE, images) ]

\* generate_and_post_content recording the pin also when create_pin failed
PostingDespiteFailure(cs, pc, t, niche, seed, fail, image_ok, pin_ok, track_ok) ==
    LET got == get_daily_strategy(cs, pc, t, niche, seed, fail)
    IN [ success |-> image_ok /\ pin_ok,
         got |-> got,
         create_pin_image |-> IF image_ok THEN ImageOf(got.strategy, "generate_and_post_content", 0)
                              ELSE [path |-> << >>, prompt |-> << >>],
         pin |-> image_ok /\ pin_ok,
         tracked |-> image_ok /\ pin_ok /\ track_ok,
         calls |-> << "get_daily_strategy", "generate_image" >>
                   \o (IF image_ok THEN << "create_pin", "track_post" >> ELSE << >>) ]

\* generate_and_post_content publishing the stored image of a prepared row
\* instead of requesting a new one
PostingPreparedImage(cs, pc, t, niche, seed, fail, image_ok, pin_ok, track_ok) ==
    LET got == get_daily_strategy(cs, pc, t, niche, seed, fail)
        row == _get_prepared_content_for_date(pc, DayOf(t), fail)
        staged == got.source = "prepared"
    IN [ success |-> (staged \/ image_ok) /\ pin_ok,
         got |-> got,
         create_pin_image |-> IF staged
                              THEN [path |-> pc[row].image_path, prompt |-> got.strategy.prompt]
                              ELSE IF image_ok
                              THEN ImageOf(got.strategy, "generate_and_post_content", 0)
                              ELSE [path |-> << >>, prompt |-> << >>],
         pin |-> (staged \/ image_ok) /\ pin_ok,
         tracked |-> (staged \/ image_ok) /\ pin_ok /\ track_ok,
         calls |-> << "get_daily_strategy" >>
                   \o (IF staged THEN << >> ELSE << "generate_image" >>)
                   \o (IF staged \/ image_ok THEN << "create_pin" >> ELSE << >>)
                   \o (IF (staged \/ image_ok) /\ pin_ok THEN << "track_post" >> ELSE << >>) ]

\* image_ok, pin_ok, track_ok: whether generate_image returned an artifact,
\* create_pin reported success and track_post recorded the pin.  The result
\* of track_post is not read: success is returned whenever the pin was created
generate_and_post_content(cs, pc, t, niche, seed, fail, image_ok, pin_ok, track_ok) ==
    LET got == get_daily_strategy(cs, pc, t, niche, seed, fail)
    IN [ success |-> image_ok /\ pin_ok,
         got |-> got,
         create_pin_image |-> IF image_ok THEN ImageOf(got.strategy, "generate_and_post_content", 0)
                              ELSE [path |-> << >>, prompt |-> << >>],
         pin |-> image_ok /\ pin_ok,
         tracked |-> image_ok /\ pin_ok /\ track_ok,
         calls |-> << "get_daily_strategy", "generate_image" >>
                   \o (IF image_ok THEN << "create_pin" >> ELSE << >>)
                   \o (IF image_ok /\ pin_ok THEN << "track_post" >> ELSE << >>) ]

(***************************************************************************)
(* The Pinterest client: its rate limit                                    *)
(***************************************************************************)
\* time.time() at tick t, in seconds
SecondsPerTick == 86400 \div TicksPerDay
Time(t) == t * SecondsPerTick

\* the answers of the platform to the requests of create_pin: the pin is
\* created (201), the upload of the image fails, or the pin request is rejected
PlatformAnswers == { "created", "upload_failed", "rejected" }

\* the rate-limit headers a 201 response can carry: none, an
\* X-RateLimit-Remaining with the count the platform has left after the pin, or
\* one that is no number
HeaderKinds == { "none", "value", "malformed" }

\* a platform whose responses carry no rate-limit headers
NoHeaders == { "none" }

\* the headers of kinds H a platform that counts as the client does answers with
\* at tick t
Headers(H, remaining, reset, t) ==
    LET left == IF Time(t) >= reset THEN API_RATE_LIMIT ELSE remaining
    IN { [kind |-> k, remaining |-> IF left > 0 THEN left - 1 ELSE 0] : k \in H }

\* what _check_rate_limit answers and the state it leaves: after the reset time a new
\* window starts; with nothing remaining it waits and refuses
_check_rate_limit(remaining, reset, t) ==
    LET current_time == Time(t)
        passed == current_time >= reset
        left == IF passed THEN API_RATE_LIMIT ELSE remaining
    IN [ ok |-> left > 0,
         rate_limit_remaining |-> left,
         rate_limit_reset |-> IF passed THEN current_time + RATE_WINDOW ELSE reset ]

\* rate_limit_remaining after a 201 response with the given headers
_update_rate_limit(remaining, headers) ==
    CASE headers.kind = "value" -> headers.remaining
      [] headers.kind = "malformed" -> IF remaining > 0 THEN remaining - 1 ELSE 0
      [] OTHER -> remaining

\* what create_pin returns, the requests it sent, and the state it leaves
create_pin(remaining, reset, t, answer, headers) ==
    LET checked == _check_rate_limit(remaining, reset, t)
    IN IF ~checked.ok
       THEN [ success |-> FALSE, error |-> "Rate limit exceeded", requests |-> << >>,
              rate_limit_remaining |-> checked.rate_limit_remaining,
              rate_limit_reset |-> checked.rate_limit_reset ]
       ELSE [ success |-> answer = "created",
              error |-> CASE answer = "created" -> "none"
                          [] answer = "upload_failed" -> "Failed to upload image"
                          [] OTHER -> "Failed to create pin",
              requests |-> IF answer = "upload_failed" THEN << "_upload_image" >>
                           ELSE << "_upload_image", "POST /pins" >>,
              rate_limit_remaining |-> IF answer = "created"
                                       THEN _update_rate_limit(checked.rate_limit_remaining,
                                                               headers)
                                       ELSE checked.rate_limit_remaining,
              rate_limit_reset |-> checked.rate_limit_reset ]

\* bulk_create_pins over the items k..Len(answers): the results, the requests
\* and the state after them; the loop ends at the first item that is refused
RECURSIVE bulk_create_pins(_, _, _, _, _, _)
bulk_create_pins(remaining, reset, t, answers, kinds, k) ==
    IF k > Len(answers)
    THEN [ results |-> << >>, requests |-> << >>, created |-> << >>,
           rate_limit_remaining |-> remaining, rate_limit_reset |-> reset ]
    ELSE LET checked == _check_rate_limit(remaining, reset, t)
         IN IF ~checked.ok
            THEN [ results |-> << >>, requests |-> << >>, created |-> << >>,
                   rate_limit_remaining |-> checked.rate_limit_remaining,
                   rate_limit_reset |-> checked.rate_limit_reset ]
            ELSE LET headers == CHOOSE h \in Headers({ kinds[k] }, remaining, reset, t) : TRUE
                     made == create_pin(remaining, reset, t, answers[k], headers)
                     rest == bulk_create_pins(made.rate_limit_remaining, made.rate_limit_reset,
                                              t, answers, kinds, k + 1)
                 IN [ results |-> << made.error >> \o rest.results,
                      requests |-> made.requests \o rest.requests,
                      created |-> (IF made.success THEN << made.rate_limit_reset >> ELSE << >>)
                                  \o rest.created,
                      rate_limit_remaining |-> rest.rate_limit_remaining,
                      rate_limit_reset |-> rest.rate_limit_reset ]

(***************************************************************************)
(* The analytics tracker                                                   *)
(***************************************************************************)
\* track_post recording the pin in the strategy database: a content_performance
\* row for the newest content_strategies row
TrackPostIntoStrategyStore(cp, cs, strategy, track_ok) ==
    [ recorded |-> track_ok,
      content_performance |-> IF track_ok /\ cs # << >>
                              THEN Append(cp, [strategy_id |-> Len(cs), engagement_rate |-> 1])
                              ELSE cp ]

\* what track_post returns and the strategy database's content_performance
\* after it: the tracker inserts into the tables of its own database, and an
\* error is logged and answered with False
track_post(cp, cs, strategy, track_ok) ==
    [ recorded |-> track_ok, content_performance |-> cp ]

(***************************************************************************)
(* State machine                                                           *)
(***************************************************************************)
Seeds(n) == 0..(n - 1)

NoStrategy == [date |-> -1]

\* the failures that can strike inside get_daily_strategy or a synthesis
SynthesisFailures == { "ranking", "recent", "synth" } \cup FieldFailures
DailyFailures == { "prepared_read", "save" } \cup SynthesisFailures
BatchFailures == { "prepared_save" } \cup SynthesisFailures

AllFailures == StorageFailures \cup { "synth" } \cup FieldFailures

\* the failures explored with the whole workflow: those of the storage that
\* change what a run does, and the failure of a synthesis as a whole
\* the failures that can strike inside should_post_today
GateFailures == { "count", "gate" }

WorkflowFailures == { "prepared_read", "save", "count", "prepared_save", "synth" }

NoGate == [asked |-> FALSE, result |-> FALSE, fail |-> "none"]
NoDaily == [source |-> "none", day |-> -1, strategy |-> NoStrategy, fail |-> "none"]
NoSelection == [top_performing |-> << >>, weights |-> << >>, niches |-> {}, fail |-> "none"]
NoServed == [day |-> -1, strategy |-> NoStrategy, rows |-> 0]
NoImage == [path |-> << >>, prompt |-> << >>]
NoOutcome == [ran |-> FALSE, success |-> FALSE, image |-> NoImage, pin |-> FALSE,
              tracked |-> FALSE]

\* the state after construction, n niches being configured
InitWith(n) ==
    /\ now = 0
    /\ TARGET_NICHES = TargetNiches(n)
    /\ SKIP_WEEKENDS \in BOOLEAN
    /\ GENERATE_BATCH_CONTENT \in BOOLEAN
    /\ content_strategies = << >>
    /\ content_performance = << >>
    /\ prepared_content = << >>
    /\ op = "idle"
    /\ gate = NoGate
    /\ daily = NoDaily
    /\ batch_count = 0
    /\ batch = << >>
    /\ calls = << >>
    /\ attempts = 0
    /\ served = NoServed
    /\ selection = NoSelection
    /\ outcome = NoOutcome
    /\ pins = << >>
    /\ rate_limit_remaining = API_RATE_LIMIT
    /\ rate_limit_reset = Time(now) + RATE_WINDOW
    /\ results = << >>

Init == InitWith(WorkflowNiches)
InitSynthesis == InitWith(NumNiches)
InitDimensions == InitWith(DimensionNiches)

\* What the strategy database may hold when a niche is selected: per
\* configured niche no row, a row older than 7 days with a performance row
\* (rate 1), a row younger than 7 days with a performance row (rate 2), two
\* rows younger than 7 days without performance rows, two rows younger
\* than 7 days with a performance row each (rate 3), or a row created 30
\* days ago, which is no longer within the last 30 days, with a performance
\* row (rate 4)
UsagePatterns == { "none", "ranked", "ranked_recent", "recent", "ranked_twice", "stale" }

\* the content_strategies rows of usage u that were created 30 days ago
RECURSIVE StaleRows(_, _, _, _)
StaleRows(niches, u, i, t) ==
    IF i = 0 THEN << >>
    ELSE StaleRows(niches, u, i - 1, t)
         \o (IF u[i] = "stale"
             THEN << [date |-> DayOf(t - 30 * TicksPerDay), niche |-> niches[i],
                      created_at |-> t - 30 * TicksPerDay] >>
             ELSE << >>)

\* the content_strategies rows of usage u that are older than 7 days
RECURSIVE OldRows(_, _, _, _)
OldRows(niches, u, i, t) ==
    IF i = 0 THEN << >>
    ELSE OldRows(niches, u, i - 1, t)
         \o (IF u[i] = "ranked"
             THEN << [date |-> DayOf(t - 8 * TicksPerDay), niche |-> niches[i],
                      created_at |-> t - 8 * TicksPerDay] >>
             ELSE << >>)

RECURSIVE RecentRows(_, _, _, _)
RecentRows(niches, u, i, t) ==
    IF i = 0 THEN << >>
    ELSE LET row == [date |-> DayOf(t - 7 * TicksPerDay + 1), niche |-> niches[i],
                     created_at |-> t - 7 * TicksPerDay + 1]
         IN RecentRows(niches, u, i - 1, t)
            \o (CASE u[i] = "ranked_recent" -> << row >>
                  [] u[i] \in { "recent", "ranked_twice" } -> << row, row >>
                  [] OTHER -> << >>)

\* the content_performance rows of usage u for the content_strategies rows cs
RECURSIVE PerformanceRows(_, _, _, _)
PerformanceRows(niches, u, cs, k) ==
    IF k = 0 THEN << >>
    ELSE LET i == CHOOSE j \in 1..Len(niches) : niches[j] = cs[k].niche
         IN PerformanceRows(niches, u, cs, k - 1)
            \o (CASE u[i] = "ranked" -> << [strategy_id |-> k, engagement_rate |-> 1] >>
                  [] u[i] = "ranked_recent" -> << [strategy_id |-> k, engagement_rate |-> 2] >>
                  [] u[i] = "ranked_twice" -> << [strategy_id |-> k, engagement_rate |-> 3] >>
                  [] u[i] = "stale" -> << [strategy_id |-> k, engagement_rate |-> 4] >>
                  [] OTHER -> << >>)

\* the state in which the selection of a niche is explored: SelectNiches
\* niches configured, 30 days after day 0, the database drawn from the
\* patterns, older rows first
InitSelectWith(n) ==
    /\ now = 30 * TicksPerDay
    /\ TARGET_NICHES = TargetNiches(n)
    /\ SKIP_WEEKENDS = FALSE
    /\ GENERATE_BATCH_CONTENT = TRUE
    /\ \E u \in [ 1..Len(TargetNiches(n)) -> UsagePatterns ] :
         \E cs \in { StaleRows(TargetNiches(n), u, Len(u), 30 * TicksPerDay)
                     \o OldRows(TargetNiches(n), u, Len(u), 30 * TicksPerDay)
                     \o RecentRows(TargetNiches(n), u, Len(u), 30 * TicksPerDay) } :
            /\ content_strategies = cs
            /\ content_performance = PerformanceRows(TargetNiches(n), u, cs, Len(cs))
    /\ prepared_content = << >>
    /\ op = "idle"
    /\ gate = NoGate
    /\ daily = NoDaily
    /\ batch_count = 0
    /\ batch = << >>
    /\ calls = << >>
    /\ attempts = 0
    /\ served = NoServed
    /\ selection = NoSelection
    /\ outcome = NoOutcome
    /\ pins = << >>
    /\ rate_limit_remaining = API_RATE_LIMIT
    /\ rate_limit_reset = Time(now) + RATE_WINDOW
    /\ results = << >>

InitSelect == InitSelectWith(SelectNiches)
InitRanked == InitSelectWith(RankedNiches)

settings == << TARGET_NICHES, SKIP_WEEKENDS, GENERATE_BATCH_CONTENT >>
tables == << content_strategies, content_performance, prepared_content >>
limiter == << rate_limit_remaining, rate_limit_reset, results >>

\* The program is single-threaded: an operation starts when no other is under
\* way (op = "idle") and runs to completion in one step, which leaves what it
\* returned and called in gate, daily, batch and calls.

\* the caller is done with the results of the last operation
Continue ==
    /\ op # "idle"
    /\ op' = "idle"
    /\ gate' = NoGate
    /\ daily' = NoDaily
    /\ batch_count' = 0
    /\ batch' = << >>
    /\ calls' = << >>
    /\ selection' = NoSelection
    /\ outcome' = NoOutcome
    /\ results' = << >>
    /\ UNCHANGED << now, settings, tables, attempts, served, pins, rate_limit_remaining,
                    rate_limit_reset >>

\* time passes; what is counted per day starts anew at midnight
Tick(last) ==
    /\ op = "idle"
    /\ now < last
    /\ now' = now + 1
    /\ attempts' = IF DayOf(now + 1) # DayOf(now) THEN 0 ELSE attempts
    /\ served' = IF DayOf(now + 1) # DayOf(now) THEN NoServed ELSE served
    /\ UNCHANGED << settings, selection, tables, op, gate, daily, batch_count, batch, calls,
                    outcome, pins, limiter >>

\* the ranking and the selection a synthesis at time t computes
SelectionOf(cs, cp, t, fail) ==
    LET top_performing == _get_top_performing_niches(cs, cp, t, fail)
        selected == _select_optimal_niche(TARGET_NICHES, top_performing, cs, t, fail)
    IN [ top_performing |-> top_performing, weights |-> selected.weights,
         niches |-> selected.niches, fail |-> fail ]

\* the selection of a niche in a synthesis: the ranking is computed and
\* _select_optimal_niche is called with it
SelectOptimalNiche(F) ==
    /\ op = "idle"
    /\ \E fail \in { "none" } \cup (F \cap { "ranking", "recent" }) :
          selection' = SelectionOf(content_strategies, content_performance, now, fail)
    /\ op' = "_select_optimal_niche"
    /\ UNCHANGED << now, settings, tables, gate, daily, batch_count, batch, calls, attempts,
                    served, outcome, pins, limiter >>

\* a direct call of should_post_today (test_bot.simulate_daily_workflow)
ShouldPostToday(F) ==
    /\ op = "idle"
    /\ \E fail \in { "none" } \cup (F \cap GateFailures) :
        gate' = [ asked |-> TRUE,
                  result |-> should_post_today(content_strategies, SKIP_WEEKENDS, now, fail),
                  fail |-> fail ]
    /\ op' = "should_post_today"
    /\ UNCHANGED << now, settings, selection, tables, daily, batch_count, batch, calls, attempts,
                    served, outcome, pins, limiter >>

\* the prepared strategy first returned today, after get_daily_strategy returned
\* got, and how many rows prepared_content held then
Served(got) ==
    IF got.source = "prepared" /\ served.day # got.day
    THEN [day |-> got.day, strategy |-> got.strategy, rows |-> Len(prepared_content)]
    ELSE served

\* a direct call of get_daily_strategy (test_bot.test_content_strategy);
\* S are the seeds explored, rowCap bounds the table it inserts into
GetDailyStrategy(F, S, rowCap) ==
    /\ op = "idle"
    /\ \E fail \in { "none" } \cup (F \cap DailyFailures), seed \in S :
       \E niche \in SelectableNiches(content_strategies, content_performance, now, fail) :
       \E got \in { get_daily_strategy(content_strategies, prepared_content, now, niche, seed,
                                       fail) } :
          /\ Len(got.rows) <= rowCap
          /\ content_strategies' = got.rows
          /\ daily' = [ source |-> got.source, day |-> got.day, strategy |-> got.strategy,
                        fail |-> fail ]
          /\ served' = Served(got)
          /\ selection' = IF got.source = "synthesized"
                          THEN SelectionOf(content_strategies, content_performance, now, fail)
                          ELSE NoSelection
    /\ op' = "get_daily_strategy"
    /\ UNCHANGED << now, settings, content_performance, prepared_content, gate,
                    batch_count, batch, calls, attempts, outcome, pins, limiter >>

\* the failure of a batch: none, or failure fail at item failAt of n
BatchFailureCases(F, n) ==
    { << "none", 0 >> } \cup (F \X (1..n))

\* get_batch_strategies saving its first strategy as get_daily_strategy does
GetBatchStrategiesSaving(F, S) ==
    /\ op = "idle"
    /\ \E n \in 1..MaxCount :
       \E case \in BatchFailureCases(F \cap SynthesisFailures, n), seed \in S :
       \E niches \in [ 1..n ->
                         SelectableNiches(content_strategies, content_performance, now, "none") ] :
          /\ batch_count' = n
          /\ batch' = get_batch_strategies(n, now, niches, seed, case[1], case[2])
    /\ op' = "get_batch_strategies"
    /\ content_strategies' = _save_strategy(content_strategies, batch'[1], now, "none")
    /\ UNCHANGED << now, settings, selection, content_performance, prepared_content, gate,
                    daily, calls, attempts, served, outcome, pins, limiter >>

\* a direct call of get_batch_strategies(count)
GetBatchStrategies(F, S) ==
    /\ op = "idle"
    /\ \E n \in 1..MaxCount :
       \E case \in BatchFailureCases(F \cap SynthesisFailures, n), seed \in S :
       \E niches \in [ 1..n ->
                         SelectableNiches(content_strategies, content_performance, now, "none") ] :
          /\ batch_count' = n
          /\ batch' = get_batch_strategies(n, now, niches, seed, case[1], case[2])
    /\ op' = "get_batch_strategies"
    /\ UNCHANGED << now, settings, selection, tables, gate, daily, calls, attempts, served,
                    outcome, pins, limiter >>

\* the ways a batch can go: the failure, the generator's seed, the items whose
\* image generation succeeds, and the niche drawn for each item
BatchCases(F, S, cs) ==
    { [ fail |-> case[1], failAt |-> case[2], seed |-> seed, images |-> images,
        niches |-> niches ] :
        case \in BatchFailureCases(F \cap BatchFailures, BATCH_CONTENT_SIZE),
        seed \in S,
        images \in { s \in SUBSET (1..BATCH_CONTENT_SIZE) :
                       Len(prepared_content) + Cardinality(s) <= MaxPrepared },
        niches \in [ 1..BATCH_CONTENT_SIZE ->
                       SelectableNiches(cs, content_performance, now, "none") ] }

\* a call of PinterestBot.generate_batch_content
GenerateBatchContent(F, S) ==
    /\ op = "idle"
    /\ \E c \in BatchCases(F, S, content_strategies) :
       \E done \in { generate_batch_content(prepared_content, now, c.niches, c.seed, c.images,
                                            c.fail, c.failAt) } :
          /\ prepared_content' = done.prepared
          /\ batch' = done.strategies
          /\ calls' = done.calls
    /\ op' = "generate_batch_content"
    /\ UNCHANGED << now, settings, selection, content_strategies, content_performance, gate, daily,
                    batch_count, attempts, served, outcome, pins, limiter >>

\* a scheduled run: PinterestBot.run_daily_automation.  At most one failure
\* strikes a run: in the gate or the daily part (fail), or in the batch.
\* rowCap bounds content_strategies, runCap the runs counted in attempts, H are
\* the kinds of rate-limit headers the platform answers with
RunDailyAutomation(F, S, rowCap, runCap, H) ==
    /\ op = "idle"
    /\ op' = "run_daily_automation"
    /\ UNCHANGED << now, settings, selection, batch_count >>
    /\ \E fail \in { "none" } \cup (F \cap (GateFailures \cup DailyFailures)) :
       \E open \in { should_post_today(content_strategies, SKIP_WEEKENDS, now, fail) } :
          /\ gate' = [asked |-> TRUE, result |-> open, fail |-> fail]
          /\ IF ~open
             THEN /\ calls' = << >>
                  /\ daily' = NoDaily
                  /\ batch' = << >>
                  /\ outcome' = NoOutcome
                  /\ UNCHANGED << tables, attempts, served, pins, limiter >>
             ELSE \E seed \in S, image_ok \in BOOLEAN, track_ok \in BOOLEAN :
                  \E answer \in PlatformAnswers,
                     headers \in Headers(H, rate_limit_remaining, rate_limit_reset, now) :
                  \E made \in { create_pin(rate_limit_remaining, rate_limit_reset, now, answer,
                                            headers) } :
                  \E niche \in SelectableNiches(content_strategies, content_performance, now,
                                                fail) :
                  \E result \in { generate_and_post_content(content_strategies,
                                      prepared_content, now, niche, seed, fail, image_ok,
                                      made.success, track_ok) } :
                     /\ Len(result.got.rows) <= rowCap
                     /\ image_ok => attempts < runCap
                     /\ content_strategies' = result.got.rows
                     /\ daily' = [ source |-> result.got.source, day |-> result.got.day,
                                   strategy |-> result.got.strategy, fail |-> fail ]
                     /\ served' = Served(result.got)
                     /\ attempts' = IF image_ok THEN attempts + 1 ELSE attempts
                     /\ outcome' = [ ran |-> TRUE, success |-> result.success,
                                     image |-> result.create_pin_image, pin |-> result.pin,
                                     tracked |-> result.tracked ]
                     /\ pins' = IF result.pin
                                THEN Append(pins, [ day |-> Today, source |-> result.got.source,
                                                    window |-> made.rate_limit_reset ])
                                ELSE pins
                     /\ rate_limit_remaining' = IF image_ok THEN made.rate_limit_remaining
                                                ELSE rate_limit_remaining
                     /\ rate_limit_reset' = IF image_ok THEN made.rate_limit_reset
                                            ELSE rate_limit_reset
                     /\ results' = IF image_ok THEN << made.error >> ELSE << >>
                     /\ content_performance'
                           = IF result.pin
                             THEN track_post(content_performance, result.got.rows,
                                             result.got.strategy, track_ok).content_performance
                             ELSE content_performance
                     /\ IF result.success /\ GENERATE_BATCH_CONTENT
                        THEN \E c \in BatchCases(IF fail = "none" THEN F ELSE {}, S,
                                                 result.got.rows) :
                             \E done \in { generate_batch_content(prepared_content, now,
                                               c.niches, ItemSeed(c.seed, 1), c.images, c.fail,
                                               c.failAt) } :
                                /\ prepared_content' = done.prepared
                                /\ batch' = done.strategies
                                /\ calls' = result.calls \o << "generate_batch_content" >>
                                                         \o done.calls
                        ELSE /\ calls' = result.calls
                             /\ batch' = << >>
                             /\ UNCHANGED prepared_content

\* the pins of source "direct" created in the windows of created
DirectPins(created) ==
    [ k \in 1..Len(created) |-> [day |-> Today, source |-> "direct", window |-> created[k]] ]

\* a direct call of PinterestClient.create_pin
CreatePin(H) ==
    /\ op = "idle"
    /\ Len(pins) < MaxPins
    /\ \E answer \in PlatformAnswers,
          headers \in Headers(H, rate_limit_remaining, rate_limit_reset, now) :
       \E made \in { create_pin(rate_limit_remaining, rate_limit_reset, now, answer, headers) } :
          /\ rate_limit_remaining' = made.rate_limit_remaining
          /\ rate_limit_reset' = made.rate_limit_reset
          /\ results' = << made.error >>
          /\ calls' = made.requests
          /\ pins' = pins \o DirectPins(IF made.success THEN << made.rate_limit_reset >>
                                         ELSE << >>)
    /\ op' = "create_pin"
    /\ UNCHANGED << now, settings, selection, tables, gate, daily, batch_count, batch, attempts,
                    served, outcome >>

\* a call of PinterestClient.bulk_create_pins with 1..MaxBulk pins
BulkCreatePins(H) ==
    /\ op = "idle"
    /\ \E n \in 1..MaxBulk :
       \E answers \in [ 1..n -> PlatformAnswers ], kinds \in [ 1..n -> H ] :
       \E made \in { bulk_create_pins(rate_limit_remaining, rate_limit_reset, now, answers,
                                       kinds, 1) } :
          /\ Len(pins) + Len(made.created) <= MaxPins
          /\ rate_limit_remaining' = made.rate_limit_remaining
          /\ rate_limit_reset' = made.rate_limit_reset
          /\ results' = made.results
          /\ calls' = made.requests
          /\ pins' = pins \o DirectPins(made.created)
    /\ op' = "bulk_create_pins"
    /\ UNCHANGED << now, settings, selection, tables, gate, daily, batch_count, batch, attempts,
                    served, outcome >>

(***************************************************************************)
(* Specifications                                                          *)
(***************************************************************************)
\* the whole workflow
Next ==
    \/ Tick(MaxNow)
    \/ Continue
    \/ ShouldPostToday(WorkflowFailures)
    \/ GetDailyStrategy(WorkflowFailures, Seeds(MaxSeed), MaxWorkflowRows)
    \/ GetBatchStrategies(WorkflowFailures, Seeds(MaxSeed))
    \/ GenerateBatchContent(WorkflowFailures, Seeds(MaxSeed))
    \/ RunDailyAutomation(WorkflowFailures, Seeds(MaxSeed), MaxWorkflowRows, MaxAttempts,
                          NoHeaders)

Spec == Init /\ [][Next]_vars

\* the scheduled runs when the storage works and no synthesis fails
NextReliable ==
    \/ Tick(MaxNow)
    \/ Continue
    \/ ShouldPostToday({})
    \/ GenerateBatchContent({}, Seeds(MaxSeed))
    \/ RunDailyAutomation({}, Seeds(MaxSeed), MaxWorkflowRows, POSTS_PER_DAY + 1, NoHeaders)

SpecReliable == Init /\ [][NextReliable]_vars

\* the cadence gate and the strategies that count for it
NextGate ==
    \/ Tick(MaxGateNow)
    \/ Continue
    \/ ShouldPostToday(GateFailures)
    \/ GetDailyStrategy({ "save", "synth" }, Seeds(MaxSeed), MaxRows)
    \/ GetBatchStrategies({ "synth" }, Seeds(MaxSeed))

SpecGate == InitSynthesis /\ [][NextGate]_vars

\* the scheduled runs up to the daily limit, the gate failing or not
NextCadence ==
    \/ Tick(MaxNow)
    \/ Continue
    \/ ShouldPostToday(GateFailures)
    \/ RunDailyAutomation(GateFailures, Seeds(MaxSeed), MaxRows, POSTS_PER_DAY + 1, NoHeaders)

SpecCadence == Init /\ [][NextCadence]_vars

\* the Pinterest client called directly, under every kind of headers
NextRateLimit ==
    \/ Tick(MaxNow)
    \/ Continue
    \/ CreatePin(HeaderKinds)
    \/ BulkCreatePins(HeaderKinds)

SpecRateLimit == Init /\ [][NextRateLimit]_vars

\* the assembled program with several niches: scheduled runs, and the
\* selection of a niche observed in direct calls
NextAssembled ==
    \/ Tick(MaxNow)
    \/ Continue
    \/ SelectOptimalNiche({ "ranking", "recent" })
    \/ GetDailyStrategy({ "recent" }, Seeds(MaxSeed), MaxWorkflowRows + 1)
    \/ RunDailyAutomation({ "save" }, Seeds(MaxSeed), MaxWorkflowRows + 1, MaxAttempts,
                          NoHeaders)

SpecAssembled == InitSynthesis /\ [][NextAssembled]_vars

\* synthesis under every failure
NextSynthesis ==
    \/ Tick(MaxNow)
    \/ Continue
    \/ GetDailyStrategy(AllFailures, Seeds(MaxSynthesisSeed), MaxWorkflowRows)
    \/ GetBatchStrategies(AllFailures, Seeds(MaxSynthesisSeed))

SpecSynthesis == InitSynthesis /\ [][NextSynthesis]_vars

\* the selection of a niche over databases with performance data
NextSelect ==
    \/ Continue
    \/ SelectOptimalNiche({ "ranking", "recent" })

SpecSelect == InitSelect /\ [][NextSelect]_vars

\* synthesis over databases with performance data
NextRanked ==
    \/ Continue
    \/ SelectOptimalNiche({ "ranking", "recent" })
    \/ GetDailyStrategy({ "ranking", "recent", "save", "synth" }, Seeds(MaxSeed),
                        2 * RankedNiches + 1)

SpecRanked == InitRanked /\ [][NextRanked]_vars

\* synthesis for every niche of the shipped configuration
NextDimensions ==
    \/ Tick(MaxNow)
    \/ Continue
    \/ GetDailyStrategy({ "dimensions", "save", "synth" }, Seeds(MaxSeed), MaxWorkflowRows)

SpecDimensions == InitDimensions /\ [][NextDimensions]_vars

(***************************************************************************)
(* Properties                                                              *)
(***************************************************************************)
\* the ready rows of prepared_content scheduled for a date
ReadyRows(date) ==
    { i \in 1..Len(prepared_content) :
        /\ prepared_content[i].scheduled_date = date
        /\ prepared_content[i].status = "ready" }

\* those of them that no other is older than
OldestReadyRows(date) ==
    { i \in ReadyRows(date) :
        \A j \in ReadyRows(date) :
            prepared_content[i].created_at <= prepared_content[j].created_at }

\* the step is one in which get_daily_strategy was called
DailyCalled ==
    \/ op' = "get_daily_strategy"
    \/ op' = "run_daily_automation" /\ gate'.result

\* the call returns the strategy held by an oldest ready row of today, as it
\* was stored, and adds no row to content_strategies
ServesOldestPrepared ==
    /\ daily'.source = "prepared"
    /\ \E i \in OldestReadyRows(Today) :
          JsonDumps(daily'.strategy) = prepared_content[i].strategy_data
    /\ UNCHANGED content_strategies

Published == \E k \in 1..Len(calls) : calls[k] = "track_post"

\* C2: when run_daily_automation has published a strategy taken from a ready
\* prepared row, that row is stored with status consumed
C2_PreparedRowConsumed ==
    (op = "run_daily_automation" /\ daily.source = "prepared" /\ Published)
        => \E i \in 1..Len(prepared_content) :
              /\ prepared_content[i].scheduled_date = daily.day
              /\ prepared_content[i].strategy_data = JsonDumps(daily.strategy)
              /\ prepared_content[i].status = "consumed"

\* C3: on a storage that works, the runs of one day that pass the gate and
\* attempt a publish never number more than POSTS_PER_DAY
C3_DailyCapHolds == attempts <= POSTS_PER_DAY

\* the rows of content_strategies dated today
RowsOfToday == { i \in 1..Len(content_strategies) : content_strategies[i].date = Today }

\* C4: with working storage should_post_today returns false exactly when
\* weekends are skipped and today is a Saturday or Sunday, or the number of
\* content_strategies rows of today has reached POSTS_PER_DAY
C4_GateDecision ==
    (op = "should_post_today" /\ gate.fail = "none")
        => (gate.result = FALSE
              <=> \/ SKIP_WEEKENDS /\ Weekday(Today) \in { 5, 6 }
                  \/ Cardinality(RowsOfToday) >= POSTS_PER_DAY)

\* C4 witness: on a day that is not skipped the gate has closed with exactly
\* POSTS_PER_DAY rows of today, older rows being stored as well
C4_Witness ==
    /\ op = "should_post_today"
    /\ gate.fail = "none"
    /\ ~(SKIP_WEEKENDS /\ Weekday(Today) \in { 5, 6 })
    /\ Cardinality(RowsOfToday) = POSTS_PER_DAY
    /\ Len(content_strategies) > POSTS_PER_DAY
    /\ gate.result = FALSE

\* the returned strategy is the prepared one returned earlier today, and a
\* direct call that found a ready row for today changed no table
RepeatsServed ==
    /\ served.day = Today => daily'.strategy = served.strategy
    /\ (op' = "get_daily_strategy" /\ ReadyRows(Today) # {}) => UNCHANGED tables

StrategyFields ==
    { "date", "niche", "theme", "keywords", "prompt", "title", "description", "board_name",
      "style", "dimensions", "website_link", "alt_text", "hashtags", "optimal_posting_time" }

\* C6: get_daily_strategy always returns a record with all fields of a
\* strategy, and when the synthesis as a whole fails that record is the one
\* fixed default, whose niche is lifestyle
C6_AlwaysAStrategy ==
    op = "get_daily_strategy"
        => /\ daily.source \in { "prepared", "synthesized", "fallback" }
           /\ StrategyFields \subseteq DOMAIN daily.strategy
           /\ daily.fail = "synth"
                => /\ daily.strategy.niche = "lifestyle"
                   /\ daily.strategy = [_get_fallback_strategy(0) EXCEPT !.date = Today]

\* C6 witness: the synthesis as a whole failed in a call of get_daily_strategy
\* while another niche than lifestyle was to be drawn
C6_Witness ==
    /\ op = "get_daily_strategy"
    /\ daily.fail = "synth"
    /\ daily.source = "fallback"
    /\ "lifestyle" \notin SelectableNiches(<< >>, << >>, now, "none")
           \/ Cardinality(SelectableNiches(<< >>, << >>, now, "none")) > 1

\* the limits on the size of the fields of a strategy
WithinLimits(strategy) ==
    /\ strategy.title.len <= 100
    /\ strategy.description.len <= 500
    /\ strategy.alt_text.len <= 500
    /\ Len(strategy.keywords) <= 8
    /\ Len(strategy.hashtags) <= 10

\* C7: every strategy get_daily_strategy and get_batch_strategies return,
\* whatever step of the synthesis failed, keeps title, description and
\* alt_text within 100, 500 and 500 characters and has at most 8 keywords and
\* 10 hashtags
C7_FieldLimits ==
    /\ op = "get_daily_strategy" => WithinLimits(daily.strategy)
    /\ op = "get_batch_strategies" => \A i \in 1..Len(batch) : WithinLimits(batch[i])

\* C7 witness: a returned batch holds a synthesized strategy whose keywords
\* and hashtags were both cut to their limits
C7_Witness ==
    /\ op = "get_batch_strategies"
    /\ \E i \in 1..Len(batch) :
          /\ Len(batch[i].keywords) = 8
          /\ Len(batch[i].hashtags) = 10

\* C8: get_batch_strategies(n) returns n strategies, the i-th dated today + i,
\* whatever the outcome of each synthesis
C8_BatchDates ==
    op = "get_batch_strategies"
        => /\ Len(batch) = batch_count
           /\ \A i \in 1..Len(batch) : batch[i].date = Today + i

\* C9: a call of get_batch_strategies leaves content_strategies and
\* prepared_content as they were
C9_BatchStoresNothing ==
    [][ op' = "get_batch_strategies"
            => UNCHANGED << content_strategies, prepared_content >> ]_vars

\* C9 witness: get_batch_strategies has returned MaxCount strategies while
\* both tables held rows
C9_Witness ==
    /\ op = "get_batch_strategies"
    /\ Len(batch) = MaxCount
    /\ content_strategies # << >>
    /\ prepared_content # << >>

\* position of a niche in a ranking, 0 when it is not ranked
PositionIn(ranking, niche) ==
    IF \E p \in 1..Len(ranking) : ranking[p] = niche
    THEN CHOOSE p \in 1..Len(ranking) : ranking[p] = niche
    ELSE 0

\* the content_strategies rows of a niche created within the past 7 days
RecentUsage(niche) ==
    Cardinality({ i \in 1..Len(content_strategies) :
                    /\ content_strategies[i].niche = niche
                    /\ content_strategies[i].created_at > now - 7 * TicksPerDay })

\* every configured niche can be drawn, and the weight of each is
\* boost / (recent usage + 1), boost being 3 for the first three of the
\* ranking, 2 for the fourth and fifth, 1 otherwise
WeightsAsClaimed ==
    /\ selection.niches = Range(TARGET_NICHES)
    /\ \A i \in 1..Len(TARGET_NICHES) :
          LET p == PositionIn(selection.top_performing, TARGET_NICHES[i])
              boost == IF p \in 1..3 THEN 3 ELSE IF p \in 4..5 THEN 2 ELSE 1
          IN selection.weights[i].num * (RecentUsage(TARGET_NICHES[i]) + 1)
                = boost * selection.weights[i].den

BoostClaimed(niche) ==
    LET p == PositionIn(selection.top_performing, niche)
    IN IF p \in 1..3 THEN 3 ELSE IF p \in 4..5 THEN 2 ELSE 1

\* of two configured niches with the same boost, one with 2 rows of the past
\* 7 days and one with none, the first has the strictly lower weight
PenaltyApplies ==
    \A i, j \in 1..Len(TARGET_NICHES) :
        ( /\ BoostClaimed(TARGET_NICHES[i]) = BoostClaimed(TARGET_NICHES[j])
          /\ RecentUsage(TARGET_NICHES[i]) = 2
          /\ RecentUsage(TARGET_NICHES[j]) = 0 )
            => selection.weights[i].num * selection.weights[j].den
                  < selection.weights[j].num * selection.weights[i].den

C12_UniformWithoutRanking ==
    (op = "_select_optimal_niche" /\ selection.top_performing = << >>)
        => /\ selection.niches = Range(TARGET_NICHES)
           /\ \A i, j \in 1..Len(TARGET_NICHES) :
                 selection.weights[i].num * selection.weights[j].den
                    = selection.weights[j].num * selection.weights[i].den

\* C12 witness: a selection without a failure over an empty ranking while
\* one niche was used twice in the past 7 days and another not at all
C12_Witness ==
    /\ op = "_select_optimal_niche"
    /\ selection.fail = "none"
    /\ selection.top_performing = << >>
    /\ \E i, j \in 1..Len(TARGET_NICHES) :
          /\ RecentUsage(TARGET_NICHES[i]) = 2
          /\ RecentUsage(TARGET_NICHES[j]) = 0

\* the content_performance rows joined to the content_strategies rows of a
\* niche that were created within the past 30 days
EngagementRows(niche) ==
    { j \in 1..Len(content_performance) :
        LET k == content_performance[j].strategy_id
        IN /\ k \in 1..Len(content_strategies)
           /\ content_strategies[k].niche = niche
           /\ content_strategies[k].created_at > now - 30 * TicksPerDay }

\* the sum of the engagement rates of a set of content_performance rows
RECURSIVE EngagementSum(_)
EngagementSum(rows) ==
    IF rows = {} THEN 0
    ELSE LET j == CHOOSE x \in rows : TRUE
         IN content_performance[j].engagement_rate + EngagementSum(rows \ {j})

\* C13: when its query does not fail, _get_top_performing_niches lists no
\* niche twice, lists only niches with an engagement row for a strategy of
\* the past 30 days, and lists them by descending average engagement rate
C13_RankingOrder ==
    (op = "_select_optimal_niche" /\ selection.fail # "ranking")
        => LET ranking == selection.top_performing
           IN /\ \A p, q \in 1..Len(ranking) : ranking[p] = ranking[q] => p = q
              /\ \A p \in 1..Len(ranking) : EngagementRows(ranking[p]) # {}
              /\ \A p, q \in 1..Len(ranking) :
                    p < q => EngagementSum(EngagementRows(ranking[p]))
                                * Cardinality(EngagementRows(ranking[q]))
                             >= EngagementSum(EngagementRows(ranking[q]))
                                * Cardinality(EngagementRows(ranking[p]))

\* C13 witness: a ranking of niches with three different averages, while a
\* niche with strategies but no engagement row and a niche whose only
\* strategy, with an engagement row, was created 30 days ago are left out
C13_Witness ==
    /\ op = "_select_optimal_niche"
    /\ selection.fail = "none"
    /\ Len(selection.top_performing) = 3
    /\ EngagementSum(EngagementRows(selection.top_performing[1]))
          = 3 * Cardinality(EngagementRows(selection.top_performing[1]))
    /\ EngagementSum(EngagementRows(selection.top_performing[3]))
          = Cardinality(EngagementRows(selection.top_performing[3]))
    /\ \E i, j \in 1..Len(TARGET_NICHES) :
          /\ PositionIn(selection.top_performing, TARGET_NICHES[i]) = 0
          /\ RecentUsage(TARGET_NICHES[i]) = 2
          /\ PositionIn(selection.top_performing, TARGET_NICHES[j]) = 0
          /\ \E k \in 1..Len(content_strategies) :
                /\ content_strategies[k].niche = TARGET_NICHES[j]
                /\ content_strategies[k].created_at <= now - 30 * TicksPerDay
                /\ \E c \in 1..Len(content_performance) :
                      content_performance[c].strategy_id = k

\* C14: a failing ranking query yields the empty ranking, and the call of
\* get_daily_strategy in which it failed returns a synthesized strategy, not
\* the default one, its niche drawn from all configured niches with equal
\* weights
C14_RankingFailureIsNoSignal ==
    /\ (op = "_select_optimal_niche" /\ selection.fail = "ranking")
          => selection.top_performing = << >>
    /\ (op = "get_daily_strategy" /\ daily.fail = "ranking")
          => /\ daily.source = "synthesized"
             /\ daily.strategy # _get_fallback_strategy(now)
             /\ daily.strategy.niche \in Range(TARGET_NICHES)
             /\ selection.top_performing = << >>
             /\ selection.niches = Range(TARGET_NICHES)
             /\ \A i, j \in 1..Len(TARGET_NICHES) :
                   selection.weights[i].num * selection.weights[j].den
                      = selection.weights[j].num * selection.weights[i].den

\* C14 witness: the ranking query failed in a call of get_daily_strategy on
\* a database that holds a scored niche and a niche used twice in the past 7
\* days, and a niche other than that of the default strategy was drawn
C14_Witness ==
    /\ op = "get_daily_strategy"
    /\ daily.fail = "ranking"
    /\ daily.strategy.niche # "lifestyle"
    /\ \E i, j \in 1..Len(TARGET_NICHES) :
          /\ EngagementRows(TARGET_NICHES[i]) # {}
          /\ RecentUsage(TARGET_NICHES[j]) >= 2

\* C15: a call of get_daily_strategy in which the save of the synthesized
\* strategy fails returns the strategy the synthesis produced, not the
\* default one, and leaves content_strategies as it was
C15_SaveFailureKeepsStrategy ==
    [][ (op' = "get_daily_strategy" /\ daily'.fail = "save" /\ daily'.source # "prepared")
            => /\ UNCHANGED content_strategies
               /\ daily'.source = "synthesized"
               /\ daily'.strategy # _get_fallback_strategy(now)
               /\ \E i \in 1..Len(TARGET_NICHES), seed \in Seeds(MaxSynthesisSeed) :
                     daily'.strategy
                        = ComposeStrategy(Today, now, TARGET_NICHES[i], seed, "none") ]_vars

\* C15 witness: the save failed in a call of get_daily_strategy that drew
\* another niche than lifestyle, after an earlier strategy had been saved
C15_Witness ==
    /\ op = "get_daily_strategy"
    /\ daily.fail = "save"
    /\ daily.source = "synthesized"
    /\ daily.strategy.niche # "lifestyle"
    /\ content_strategies # << >>

\* the text fields of a strategy
TextFields == { "prompt", "title", "description", "alt_text", "hashtags" }

\* the value a text field takes when its generation fails: a fixed text
\* around the theme and the first keywords of the strategy
TextFallback(field, strategy) ==
    CASE field = "prompt" ->
           [kind |-> "fallback", template |-> 0, theme |-> strategy.theme,
            enhancements |-> << >>]
      [] field = "title" ->
           [kind |-> "fallback", template |-> 0, len |-> ThemeLen(strategy.theme) + 12]
      [] field = "description" ->
           [kind |-> "fallback", template |-> 0, cta |-> 0,
            len |-> 58 + ThemeLen(strategy.theme) + JoinLen(Take(strategy.keywords, 3), 1)]
      [] field = "alt_text" ->
           [kind |-> "fallback", len |-> ThemeLen(strategy.theme) + 12]
      [] OTHER -> << Tag("pinterest"), Tag("inspiration"), Tag("ideas") >>

\* C16: when the generation of one text field fails in a call of
\* get_daily_strategy, the returned strategy is the synthesized one with
\* that field alone replaced by its fallback value
C16_FieldFailureIsLocal ==
    (op = "get_daily_strategy" /\ daily.fail \in TextFields /\ daily.source # "prepared")
        => /\ daily.source = "synthesized"
           /\ \E i \in 1..Len(TARGET_NICHES), seed \in Seeds(MaxSynthesisSeed) :
                 LET whole == ComposeStrategy(Today, now, TARGET_NICHES[i], seed, "none")
                 IN daily.strategy
                      = [whole EXCEPT ![daily.fail] = TextFallback(daily.fail, whole)]

\* C16 witness: the description failed in a call of get_daily_strategy whose
\* strategy has another niche and another theme than the default strategy
C16_Witness ==
    /\ op = "get_daily_strategy"
    /\ daily.fail = "description"
    /\ daily.strategy.description.kind = "fallback"
    /\ daily.strategy.title.kind = "template"
    /\ daily.strategy.niche # "lifestyle"
    /\ daily.strategy.theme # _get_fallback_strategy(now).theme

\* the website_link of a strategy is the base URL with UTM parameters whose
\* content names the niche and theme of the strategy and whose term is the
\* date of the strategy
LinkTracksStrategy(strategy) ==
    /\ strategy.website_link.base = WEBSITE_URL
    /\ strategy.website_link.utm
    /\ strategy.website_link.utm_content = << strategy.niche, strategy.theme >>
    /\ strategy.website_link.utm_term = strategy.date

\* C17: the website_link of every synthesized strategy that
\* get_daily_strategy or get_batch_strategies returns carries the niche, the
\* theme and the date of that strategy
C17_LinkCarriesStrategyDate ==
    /\ (op \in { "get_daily_strategy", "run_daily_automation" }
           /\ daily.source = "synthesized")
          => LinkTracksStrategy(daily.strategy)
    /\ op \in { "get_batch_strategies", "generate_batch_content" }
          => \A i \in 1..Len(batch) :
                batch[i] # _get_fallback_strategy(now) => LinkTracksStrategy(batch[i])

\* no entry of the list occurs twice
NoDuplicates(list) == \A p, q \in 1..Len(list) : list[p] = list[q] => p = q

\* the keywords of a strategy are distinct, at most 8, and each is a
\* configured hashtag of the niche, a lowercase word of the theme, or one of
\* the first 3 trending keywords the synthesis drew
KeywordsAsClaimed(strategy) ==
    /\ NoDuplicates(strategy.keywords)
    /\ Len(strategy.keywords) <= 8
    /\ \E seed \in Seeds(MaxSynthesisSeed) :
          Range(strategy.keywords)
             \subseteq Range(get_niche_config(strategy.niche).hashtags)
                       \cup { Word(Lower(strategy.theme[i])) : i \in 1..Len(strategy.theme) }
                       \cup { Word(w) : w \in Range(Take(_get_trending_keywords_for_date(seed),
                                                         3)) }

\* C18 as stated: the keywords of every synthesized strategy are distinct,
\* at most 8, and drawn from the hashtags of the niche, the lowercase words
\* of the theme and the first 3 trending keywords
C18_AsStated ==
    (op = "get_daily_strategy" /\ daily.source = "synthesized")
        => KeywordsAsClaimed(daily.strategy)

\* C18: the keywords of every synthesized strategy whose keyword generation
\* did not fail are distinct, at most 8, and drawn from the hashtags of the
\* niche, the lowercase words of the theme and the first 3 trending keywords
C18_KeywordsFromUnion ==
    (op = "get_daily_strategy" /\ daily.source = "synthesized" /\ daily.fail # "keywords")
        => KeywordsAsClaimed(daily.strategy)

\* C18 witness: a synthesized strategy with 8 keywords, one of them a
\* trending keyword that is also a word of the theme
C18_Witness ==
    /\ op = "get_daily_strategy"
    /\ daily.source = "synthesized"
    /\ daily.fail = "none"
    /\ Len(daily.strategy.keywords) = 8
    /\ \E k \in 1..Len(daily.strategy.keywords) :
          /\ daily.strategy.keywords[k].h = 0
          /\ daily.strategy.keywords[k].w \in Range(daily.strategy.theme)
          /\ daily.strategy.keywords[k].w \in Range(trending_keywords)

\* the four generic platform hashtags
GenericHashtags == { Tag("pinterest"), Tag("inspiration"), Tag("ideas"), Tag("lifestyle") }

\* the hashtags of a strategy are distinct, at most 10, each with exactly
\* one leading '#', and each a configured hashtag of the niche, a keyword of
\* the strategy with one '#' in front, or a generic hashtag
HashtagsAsClaimed(strategy) ==
    /\ NoDuplicates(strategy.hashtags)
    /\ Len(strategy.hashtags) <= 10
    /\ \A k \in 1..Len(strategy.hashtags) : strategy.hashtags[k].h = 1
    /\ Range(strategy.hashtags)
          \subseteq Range(get_niche_config(strategy.niche).hashtags)
                    \cup { Tag(strategy.keywords[k].w) : k \in 1..Len(strategy.keywords) }
                    \cup GenericHashtags

\* C19: the hashtags of every synthesized strategy that get_daily_strategy or
\* get_batch_strategies returns are distinct, at most 10, carry exactly one
\* leading '#', and are drawn from the hashtags of the niche, the keywords
\* prefixed with '#' and the four generic hashtags
C19_HashtagsFromUnion ==
    /\ (op = "get_daily_strategy" /\ daily.source = "synthesized")
          => HashtagsAsClaimed(daily.strategy)
    /\ op = "get_batch_strategies"
          => \A i \in 1..Len(batch) :
                batch[i] # _get_fallback_strategy(now) => HashtagsAsClaimed(batch[i])

\* C19 witness: a synthesized strategy with 10 hashtags whose keywords hold
\* entries with and without '#', one hashtag being a keyword without '#'
\* that is neither configured for the niche nor generic
C19_Witness ==
    /\ op = "get_daily_strategy"
    /\ daily.source = "synthesized"
    /\ daily.fail = "none"
    /\ Len(daily.strategy.hashtags) = 10
    /\ \E k \in 1..Len(daily.strategy.keywords) : daily.strategy.keywords[k].h = 1
    /\ \E k \in 1..Len(daily.strategy.keywords) :
          /\ daily.strategy.keywords[k].h = 0
          /\ Tag(daily.strategy.keywords[k].w) \in Range(daily.strategy.hashtags)
          /\ Tag(daily.strategy.keywords[k].w)
                \notin Range(get_niche_config(daily.strategy.niche).hashtags)
                        \cup GenericHashtags

\* the dimensions the claim gives for a niche
DimensionsClaimed(niche) ==
    CASE niche = "food" -> "square"
      [] niche \in { "quotes", "inspiration" } -> "story"
      [] OTHER -> "standard"

\* C20: the dimensions of a synthesized strategy are square for food, story
\* for quotes and inspiration and standard for every other niche, and the
\* dimensions of every strategy get_daily_strategy returns are one of the
\* keys of IMAGE_DIMENSIONS
C20_DimensionsLookup ==
    /\ (op = "get_daily_strategy" /\ daily.source = "synthesized")
          => daily.strategy.dimensions = DimensionsClaimed(daily.strategy.niche)
    /\ op = "get_daily_strategy"
          => /\ daily.strategy.dimensions \in { "standard", "square", "story" }
             /\ daily.strategy.dimensions \in IMAGE_DIMENSIONS

\* C20 witness: a strategy synthesized for the niche food has the square
\* dimensions
C20_Witness ==
    /\ op = "get_daily_strategy"
    /\ daily.source = "synthesized"
    /\ daily.strategy.niche = "food"
    /\ daily.strategy.dimensions = "square"

\* the steps of generate_and_post_content, in the order of the code
StepOrder == << "get_daily_strategy", "generate_image", "create_pin", "track_post" >>

\* the calls of the last run that generate_and_post_content made: those before
\* the batch generation, if the run went on to it
PostingCalls ==
    IF \E k \in 1..Len(calls) : calls[k] = "generate_batch_content"
    THEN SubSeq(calls, 1, (CHOOSE k \in 1..Len(calls) : calls[k] = "generate_batch_content") - 1)
    ELSE calls

\* the steps were taken in order, each only after the one before it succeeded
StepsInOrder ==
    /\ Len(PostingCalls) \in 2..4
    /\ \A k \in 1..Len(PostingCalls) : PostingCalls[k] = StepOrder[k]
    /\ Len(PostingCalls) >= 3 <=> outcome.image # NoImage
    /\ Len(PostingCalls) = 4 <=> outcome.pin

\* C21 as stated: in a run of generate_and_post_content the steps occur in the
\* order pick strategy, generate image, publish pin, record analytics, each
\* only after the one before it succeeded, and when any step fails, the
\* analytics record included, the run returns success = false
C21_AsStated ==
    outcome.ran
       => /\ StepsInOrder
          /\ (outcome.image = NoImage \/ ~outcome.pin \/ ~outcome.tracked) => ~outcome.success

\* C21: in a run of generate_and_post_content the steps occur in the order
\* pick strategy, generate image, publish pin, record analytics; create_pin is
\* called only with an artifact of the image generation, track_post only after
\* create_pin reported success; the run returns success = false exactly when
\* the image generation or create_pin failed, and success = true when only
\* track_post failed
C21_StepsInOrder ==
    outcome.ran
       => /\ StepsInOrder
          /\ outcome.success <=> (outcome.image # NoImage /\ outcome.pin)

\* C21 witness: a run whose image was generated and whose create_pin failed
\* made three calls and returned success = false
C21_Witness ==
    /\ op = "run_daily_automation"
    /\ outcome.ran
    /\ outcome.image # NoImage
    /\ ~outcome.pin
    /\ PostingCalls = << "get_daily_strategy", "generate_image", "create_pin" >>
    /\ ~outcome.success

\* the ready rows table pc holds for date
ReadyRowsIn(pc, date) ==
    { i \in 1..Len(pc) : pc[i].scheduled_date = date /\ pc[i].status = "ready" }

\* C22: a date for which a pin has been published never later gains a new ready
\* prepared_content row: no step, the batch generation of the publishing run
\* included, adds a ready row scheduled for the day of a pin
C22_LifecycleForward ==
    [][ \A k \in 1..Len(pins') :
           ReadyRowsIn(prepared_content', pins'[k].day)
              \subseteq ReadyRowsIn(prepared_content, pins'[k].day) ]_vars

\* C23: a run of run_daily_automation whose should_post_today returned false
\* calls no strategy selection, image generation, publish, analytics record or
\* batch generation and leaves content_strategies and prepared_content as they
\* were; with SKIP_WEEKENDS set, a run on a Saturday or Sunday finds the gate
\* closed and publishes no pin
C23_ClosedGateDoesNothing ==
    [][ /\ (op' = "run_daily_automation" /\ ~gate'.result)
           => /\ calls' = << >>
              /\ outcome' = NoOutcome
              /\ daily' = NoDaily
              /\ batch' = << >>
              /\ UNCHANGED << content_strategies, prepared_content, pins >>
        /\ (op' = "run_daily_automation" /\ SKIP_WEEKENDS /\ Weekday(Today) \in { 5, 6 })
           => /\ ~gate'.result
              /\ pins' = pins ]_vars

\* C23 witness: with SKIP_WEEKENDS and GENERATE_BATCH_CONTENT set, a run on a
\* Saturday, after a pin was published and content was staged on Friday, found
\* the gate closed
C23_Witness ==
    /\ op = "run_daily_automation"
    /\ ~gate.result
    /\ SKIP_WEEKENDS
    /\ GENERATE_BATCH_CONTENT
    /\ Weekday(Today) = 5
    /\ pins # << >>
    /\ prepared_content # << >>
    /\ calls = << >>

\* the calls generate_batch_content made in its loop, if the last operation
\* ran it: those after get_batch_strategies
LoopCalls ==
    IF \E k \in 1..Len(calls) : calls[k] = "get_batch_strategies"
    THEN SubSeq(calls, (CHOOSE k \in 1..Len(calls) : calls[k] = "get_batch_strategies") + 1,
                Len(calls))
    ELSE << >>

\* the loop asked for one image per strategy of the batch, and saved an item
\* only right after its image was generated, before the next image request
BatchInListOrder ==
    /\ Cardinality({ k \in 1..Len(LoopCalls) : LoopCalls[k] = "generate_image" }) = Len(batch)
    /\ \A k \in 1..Len(LoopCalls) :
          /\ LoopCalls[k] \in { "generate_image", "save_prepared_content" }
          /\ LoopCalls[k] = "save_prepared_content"
                => (k > 1 /\ LoopCalls[k - 1] = "generate_image")

\* a delay step lies between every two consecutive image requests of the loop
BatchPaced ==
    \A j, k \in 1..Len(LoopCalls) :
        (j < k /\ LoopCalls[j] = "generate_image" /\ LoopCalls[k] = "generate_image")
           => \E m \in (j + 1)..(k - 1) : LoopCalls[m] = "sleep"

\* C24: generate_batch_content handles the strategies of the batch one at a
\* time in list order, the image request for an item starting only after the
\* item before it was saved or skipped, and a delay step separates every two
\* consecutive external calls
C24_BatchSequentialAndPaced ==
    (\E k \in 1..Len(calls) : calls[k] = "get_batch_strategies")
       => BatchInListOrder /\ BatchPaced

\* the gate is closed in the current state: a call of should_post_today whose
\* count succeeds would return false
GateClosed == ~should_post_today(content_strategies, SKIP_WEEKENDS, now, "none")

\* C25: get_daily_strategy and get_batch_strategies do not consult the cadence
\* gate: while the gate is closed, by the daily limit or by a skipped weekend
\* day, get_daily_strategy returns a strategy with all fields and, when it
\* synthesized one and the save did not fail, inserts its row, and
\* get_batch_strategies returns as many strategies as were asked for;
\* should_post_today changes no stored state
C25_GateNotConsulted ==
    [][ /\ (GateClosed /\ op' = "get_daily_strategy")
           => /\ DOMAIN daily'.strategy = StrategyFields \cup { "board_id" }
              /\ (daily'.source = "synthesized" /\ daily'.fail # "save")
                    => /\ Len(content_strategies') = Len(content_strategies) + 1
                       /\ content_strategies'[Len(content_strategies')].date = Today
        /\ (GateClosed /\ op' = "get_batch_strategies")
           => /\ Len(batch') = batch_count'
              /\ batch_count' > 0
        /\ op' = "should_post_today" => UNCHANGED tables ]_vars

\* C25 witness: a direct call of get_daily_strategy has stored a row above the
\* daily limit
C25_Witness ==
    /\ op = "get_daily_strategy"
    /\ daily.source = "synthesized"
    /\ Cardinality(RowsOfToday) = POSTS_PER_DAY + 1

\* nothing remains of the rate limit and the reset time has not passed
RateLimited == rate_limit_remaining <= 0 /\ Time(now) < rate_limit_reset

\* while rate limited, create_pin sends no request and returns the failure
\* 'Rate limit exceeded', and bulk_create_pins ends at its first item
RefusedWhileLimited ==
    /\ (RateLimited /\ op' = "create_pin")
          => calls' = << >> /\ results' = << "Rate limit exceeded" >> /\ pins' = pins
    /\ (RateLimited /\ op' = "bulk_create_pins")
          => calls' = << >> /\ results' = << >> /\ pins' = pins

\* the pins created in the window that ends at reset
PinsOfWindow(reset) == { k \in 1..Len(pins) : pins[k].window = reset }

\* no reset window holds more pins than the rate limit
WindowsWithinLimit ==
    \A k \in 1..Len(pins) : Cardinality(PinsOfWindow(pins[k].window)) <= API_RATE_LIMIT

\* C26: while rate_limit_remaining <= 0 and the reset time has not passed,
\* create_pin uploads no image, sends no pin request and returns the failure
\* 'Rate limit exceeded', and bulk_create_pins stops at that item; so within
\* one reset window no more than API_RATE_LIMIT pins are created, also when the
\* platform's responses carry no rate-limit headers
C26_RateLimitKept ==
    [][ RefusedWhileLimited /\ WindowsWithinLimit' ]_vars

\* C27: no operation of the assembled program inserts a row into the
\* content_performance table of the strategy database, so in every state the
\* ranking of niches is empty and every selection that was computed gives all
\* configured niches the same weight
C27_NoPerformanceSignal ==
    /\ content_performance = << >>
    /\ _get_top_performing_niches(content_strategies, content_performance, now, "none") = << >>
    /\ selection # NoSelection
          => /\ selection.top_performing = << >>
             /\ selection.niches = Range(TARGET_NICHES)
             /\ \A i, j \in 1..Len(TARGET_NICHES) :
                   selection.weights[i].num * selection.weights[j].den
                      = selection.weights[j].num * selection.weights[i].den

\* C27 witness: a scheduled run has published a synthesized strategy whose row
\* is stored, and track_post has recorded the pin
C27_Witness ==
    /\ op = "run_daily_automation"
    /\ outcome.tracked
    /\ daily.source = "synthesized"
    /\ content_strategies # << >>
    /\ content_strategies[Len(content_strategies)].niche = daily.strategy.niche

\* the step is a scheduled run that took the synthesis path
SynthesisRun ==
    /\ op' = "run_daily_automation"
    /\ gate'.result
    /\ daily'.source = "synthesized"

\* the step appended exactly one content_strategies row, dated today
OneRowOfToday ==
    /\ Len(content_strategies') = Len(content_strategies) + 1
    /\ SubSeq(content_strategies', 1, Len(content_strategies)) = content_strategies
    /\ content_strategies'[Len(content_strategies')].date = Today

\* the pins published today from synthesized strategies
SynthesizedPinsOfToday ==
    { k \in 1..Len(pins) : pins[k].day = Today /\ pins[k].source = "synthesized" }

\* C28 as stated: a run on the synthesis path inserts exactly one
\* content_strategies row dated today, whether or not its image generation or
\* publish fails, and in every state today's rows are at least as many as the
\* pins published today from synthesized strategies
C28_AsStated ==
    [][ /\ SynthesisRun => OneRowOfToday
        /\ (Cardinality(RowsOfToday) >= Cardinality(SynthesizedPinsOfToday))' ]_vars

\* C28: a run on the synthesis path whose INSERT does not fail inserts exactly
\* one content_strategies row dated today, whether or not its image generation
\* or publish fails, and publishes at most one pin; a run whose INSERT fails
\* inserts no row and can still publish
C28_RowBeforePublish ==
    [][ SynthesisRun
           => /\ daily'.fail # "save" => OneRowOfToday
              /\ daily'.fail = "save" => UNCHANGED content_strategies
              /\ Len(pins') <= Len(pins) + 1 ]_vars

\* C28 witness: a run synthesized a strategy and stored its row, and its image
\* generation failed
C28_Witness ==
    /\ op = "run_daily_automation"
    /\ daily.source = "synthesized"
    /\ daily.fail = "none"
    /\ outcome.ran
    /\ outcome.image = NoImage
    /\ ~outcome.success
    /\ content_strategies # << >>
    /\ content_strategies[Len(content_strategies)].date = Today
    /\ content_strategies[Len(content_strategies)].created_at = now

\* today is a Saturday or Sunday and weekends are skipped
SkippedDay == SKIP_WEEKENDS /\ Weekday(Today) \in { 5, 6 }

\* C29: the cadence gate fails open: when the count cannot be read,
\* _count_posts_today yields 0 and should_post_today returns true on a day that
\* is not skipped, whatever number of rows of today is stored, and an error
\* raised inside should_post_today is answered with true as well
C29_GateFailsOpen ==
    /\ _count_posts_today(content_strategies, Today, "count") = 0
    /\ (op = "should_post_today" /\ gate.fail = "count") => (gate.result <=> ~SkippedDay)
    /\ (op = "should_post_today" /\ gate.fail = "gate" /\ ~SkippedDay) => gate.result

\* C29 witness: on a day that is not skipped should_post_today returned true
\* with a failing count while the rows of today had reached the limit
C29_Witness ==
    /\ op = "should_post_today"
    /\ gate.fail = "count"
    /\ gate.result
    /\ ~SkippedDay
    /\ Cardinality(RowsOfToday) >= POSTS_PER_DAY

\* the rows the step added to prepared_content
NewPreparedRows == (Len(prepared_content) + 1)..Len(prepared_content')

\* the step wrote prepared_content only in generate_batch_content, only by
\* adding rows, and every added row holds a strategy of the batch with the
\* image that was generated for it
StagedOnlyByBatch ==
    prepared_content' # prepared_content
       => /\ \E k \in 1..Len(calls') : calls'[k] = "get_batch_strategies"
          /\ Len(prepared_content') > Len(prepared_content)
          /\ SubSeq(prepared_content', 1, Len(prepared_content)) = prepared_content
          /\ Cardinality(NewPreparedRows)
                <= Cardinality({ k \in 1..Len(calls') : calls'[k] = "save_prepared_content" })
          /\ \A i \in NewPreparedRows :
                \E k \in 1..Len(batch') :
                   /\ prepared_content'[i].strategy_data = JsonDumps(batch'[k])
                   /\ prepared_content'[i].image_path
                         = ImageOf(batch'[k], "generate_batch_content", k).path

\* C30: every run of generate_and_post_content requests a new image, also for
\* a strategy taken from a ready prepared_content row; the image passed to
\* create_pin is that new one and never the image_path of a prepared row; and
\* prepared_content is written only by generate_batch_content, a row being
\* added only for a strategy whose image was generated
C30_ImageAlwaysRequested ==
    [][ /\ (op' = "run_daily_automation" /\ gate'.result)
           => /\ Len(calls') >= 2
              /\ calls'[2] = "generate_image"
              /\ outcome'.image # NoImage
                    => /\ outcome'.image
                             = ImageOf(daily'.strategy, "generate_and_post_content", 0)
                       /\ \A i \in 1..Len(prepared_content') :
                             prepared_content'[i].image_path # outcome'.image.path
        /\ StagedOnlyByBatch ]_vars

\* C30 witness: a run published a strategy taken from a prepared row with a
\* newly generated image, the row keeping the image of the batch
C30_Witness ==
    /\ op = "run_daily_automation"
    /\ daily.source = "prepared"
    /\ outcome.pin
    /\ \E i \in ReadyRows(Today) :
          /\ prepared_content[i].strategy_data = JsonDumps(daily.strategy)
          /\ prepared_content[i].image_path # outcome.image.path
          /\ prepared_content[i].image_path # << >>

====
